---- MODULE Spec2Model ----
(***************************************************************************)
(* Model of the cart consistency subsystem (services/cart.service.ts):     *)
(* the Cart, CartItem, Product and Inventory tables and the operations of  *)
(* CartService, each executed as one atomic step (calls one at a time).    *)
(*                                                                         *)
(* Money is kept in whole cents.  A request quantity is a JSON number; it  *)
(* is represented as [n |-> i, half |-> b], the number i + (b ? 0.5 : 0),  *)
(* so that non-integer quantities such as 2.5 exist in the model.          *)
(***************************************************************************)
EXTENDS Integers, FiniteSets, Sequences, TLC

\* ---------------------------------------------------------------- bounds
MaxStock == 2
MaxReserved == 1
MaxQuantity == 2
MaxItemId == 2

MaxLines == 2          \* lines of a cart whose totals are computed
MaxLineQuantity == 3   \* quantity of such a line
MaxCalls == 2          \* service calls in flight at once
MaxTime == 3           \* last value of the clock
MaxTokenId == 2        \* RefreshToken rows ever created

\* ------------------------------------------------------------- constants
TAX_RATE == 8            \* percent: parseFloat(process.env.TAX_RATE || '0.08')
\* lifetime of a refresh token, process.env.JWT_REFRESH_EXPIRY || '7d', in
\* units of the clock
RefreshExpiry == 2

Sessions == {"s1", "s2"}
Users == {"u1", "u2"}
NoUser == "null"         \* userId undefined / null
ProductIds == {"p1", "p2", "p3", "p4"}
CatalogProducts == {"p1", "p2", "p3"}    \* products that have a Product row
BasePrice == 1000                        \* catalog price in cents at the start
Prices == {BasePrice, 1999}              \* catalog prices in cents
\* s1 may authenticate as either user; s2 stays a guest session
SessionUsers == ({"s1"} \X (Users \union {NoUser})) \union {<<"s2", NoUser>>}
\* products whose catalog price changes while carts hold them
RepricedProducts == {"p1"}
CartIds == 1..Cardinality(Sessions)
\* tax rates the service may be configured with (process.env.TAX_RATE), as
\* decimals num / den: the default 0.08 and 0.05
TaxRates == {[num |-> TAX_RATE, den |-> 100], [num |-> 5, den |-> 100]}
\* price snapshots in cents of the lines whose totals are computed
LinePrices == {70, 1000, 1999, 2000}


\* JSON numbers used as request quantities: the integers -1..MaxQuantity and
\* the non-integer 1.5
Numbers == [n : (-1)..MaxQuantity, half : {FALSE}] \union [n : {1}, half : {TRUE}]
Num(i) == [n |-> i, half |-> FALSE]
IsInteger(q) == ~q.half
\* mutant: quantity < 0
LeqZero_Strict(q) == q.n < 0
\* quantity <= 0
LeqZero(q) == q.n < 0 \/ (q.n = 0 /\ ~q.half)
\* a < q for an integer a
IntLess(a, q) == a < q.n \/ (a = q.n /\ q.half)
\* a + q for an integer a
IntPlus(a, q) == [n |-> a + q.n, half |-> q.half]

StockedProducts == {"p1", "p2"}          \* products that have an Inventory row
\* addItem requests: every cart and quantity for the stocked products, a few
\* quantities on the first cart for the products that always fail
AddItemRequests ==
  (CartIds \X StockedProducts \X Numbers)
  \union ({1} \X (ProductIds \ StockedProducts) \X {Num(0), Num(1)})
ItemIds == 1..MaxItemId
\* the service calls that can be in flight at once
CallIds == 1..MaxCalls

VARIABLES
  carts,        \* Cart rows      [id, sessionId, userId]
  cartItems,    \* CartItem rows  [id, cartId, productId, quantity, priceSnapshot]
  products,     \* Product rows   [id, price]
  inventory,    \* Inventory rows [productId, quantity, reserved]
  nextCartId,   \* next generated Cart id
  nextItemId,   \* next generated CartItem id
  result,       \* the last call: [op, request, error, value]; value is the
                \* returned row or response, for removeItem the deleted row
                \* and for clearCart the deleted count (both only logged)
  http,         \* the HTTP request in hand: its route, inputs, the handler's
                \* position (stage), the response once sent, and the Cart and
                \* CartItem rows as they were when the request arrived
  calls,        \* service calls running concurrently: for each, the operation,
                \* its arguments, the next store call (pc), the rows it has
                \* read and its outcome
  refreshTokens,\* RefreshToken rows [id, token, userId, expiresAt]
  now,          \* the clock, in the seconds jwt.sign stamps on a token
  nextTokenId,  \* next generated RefreshToken id
  connection,   \* the connectWithRetry invocation [pc, attempt, connects, failures, delay, error]
  intents,      \* payment intents held by Stripe [id, amount, currency, status]
  payments      \* Payment rows [stripePaymentIntentId, userId, cartId, amount, currency, status]

\* the variables of the authentication service
authVars == <<refreshTokens, now, nextTokenId>>

\* the variables of the payment service
paymentVars == <<intents, payments>>

vars == <<carts, cartItems, products, inventory, nextCartId, nextItemId, result,
          http, calls, refreshTokens, now, nextTokenId, connection, intents,
          payments>>

\* no connectWithRetry invocation has been made
NoConnection ==
  [pc |-> "idle", attempt |-> 0, connects |-> 0, failures |-> <<>>, delay |-> 0,
   error |-> ""]

\* ------------------------------------------------------------ error kinds
OK == [code |-> "OK"]
InvalidQuantityError(quantity) ==
  [code |-> "INVALID_QUANTITY", statusCode |-> 400]
ProductNotFoundError(productId) ==
  [code |-> "PRODUCT_NOT_FOUND", statusCode |-> 404, productId |-> productId]
InsufficientInventoryError(productId, available, requested) ==
  [code |-> "INSUFFICIENT_INVENTORY", statusCode |-> 400,
   productId |-> productId, available |-> available, requested |-> requested]
CartItemNotFoundError(itemId) ==
  [code |-> "CART_ITEM_NOT_FOUND", statusCode |-> 404]
\* any error of the store that is not a CartError (constraint violation,
\* validation error): rethrown unchanged by the service
StoreError == [code |-> "STORE_ERROR"]

NoValue == [void |-> TRUE]

\* a JSON request body: productId ("" when missing or blank) and quantity
\* with its JavaScript type
NoBody == [productId |-> "", quantity |-> Num(0), quantityType |-> "undefined"]
NoResponse == [status |-> 0, error |-> "", message |-> ""]
\* no request in hand
NoRequest ==
  [route |-> "none", stage |-> "done", session |-> [id |-> "", userId |-> NoUser],
   itemId |-> 0, body |-> NoBody, cartId |-> 0, response |-> NoResponse,
   before |-> [carts |-> {}, cartItems |-> {}]]

\* no call running; a call holds its arguments (request), the rows it has read
\* (cart, product, available, existingItem) and, once done, what it threw or
\* returned
NoCall ==
  [op |-> "none", pc |-> "idle", request |-> NoValue, cart |-> NoValue,
   product |-> NoValue, available |-> 0, existingItem |-> NoValue,
   error |-> OK, value |-> NoValue]

\* ------------------------------------------------------------ table reads
CartBySession(sessionId) == {c \in carts : c.sessionId = sessionId}
CartById(cartId) == {c \in carts : c.id = cartId}
ItemById(itemId) == {i \in cartItems : i.id = itemId}
ItemsOfCart(cartId) == {i \in cartItems : i.cartId = cartId}
LinesOf(cartId, productId) ==
  {i \in cartItems : i.cartId = cartId /\ i.productId = productId}
ProductById(productId) == {p \in products : p.id = productId}
InventoryOf(productId) == {r \in inventory : r.productId = productId}
\* available = quantity - reserved, 0 when the product has no Inventory row
Available(productId) ==
  IF InventoryOf(productId) = {} THEN 0
  ELSE LET inv == CHOOSE r \in InventoryOf(productId) : TRUE
       IN  inv.quantity - inv.reserved

\* ------------------------------------------------------------------ Init
\* The seeded catalog: p1 and p2 are in stock (p2 partly reserved), p3 has a
\* Product row but no Inventory row, p4 has no Product row.
Init ==
  /\ carts = {}
  /\ cartItems = {}
  /\ products = {[id |-> p, price |-> BasePrice] : p \in CatalogProducts}
  /\ inventory = {[productId |-> "p1", quantity |-> MaxStock, reserved |-> 0],
                  [productId |-> "p2", quantity |-> MaxStock, reserved |-> MaxReserved]}
  /\ nextCartId = 1
  /\ nextItemId = 1
  /\ result = [op |-> "init", error |-> OK, value |-> NoValue,
               request |-> NoValue]
  /\ http = NoRequest
  /\ calls = [c \in CallIds |-> NoCall]
  /\ refreshTokens = {}
  /\ now = 0
  /\ nextTokenId = 1
  /\ connection = NoConnection
  /\ intents = {}
  /\ payments = {}

\* ------------------------------------------------------- getOrCreateCart
\* mutant: no lookup by sessionId, a Cart is created on every call
getOrCreateCart_AlwaysCreate(sessionId, userId) ==
  LET cart == [id |-> nextCartId, sessionId |-> sessionId, userId |-> userId]
  IN  /\ carts' = carts \union {cart}
      /\ result' = [op |-> "getOrCreateCart", error |-> OK,
                    value |-> cart,
                            request |-> [sessionId |-> sessionId, userId |-> userId]]
      /\ nextCartId' = nextCartId + 1
      /\ UNCHANGED <<cartItems, products, inventory, nextItemId>>

\* mutant: if (userId) instead of if (userId && !cart.userId)
getOrCreateCart_OverwriteUser(sessionId, userId) ==
  /\ IF CartBySession(sessionId) # {}
     THEN \E cart \in CartBySession(sessionId) :
            IF userId # NoUser
            THEN LET updated == [cart EXCEPT !.userId = userId]
                 IN  /\ carts' = (carts \ {cart}) \union {updated}
                     /\ result' = [op |-> "getOrCreateCart", error |-> OK,
                                   value |-> updated,
                                   request |-> [sessionId |-> sessionId, userId |-> userId]]
            ELSE /\ carts' = carts
                 /\ result' = [op |-> "getOrCreateCart", error |-> OK,
                               value |-> cart,
                            request |-> [sessionId |-> sessionId, userId |-> userId]]
     ELSE LET cart == [id |-> nextCartId, sessionId |-> sessionId,
                       userId |-> userId]
          IN  /\ carts' = carts \union {cart}
              /\ result' = [op |-> "getOrCreateCart", error |-> OK,
                            value |-> cart,
                            request |-> [sessionId |-> sessionId, userId |-> userId]]
  /\ nextCartId' = IF CartBySession(sessionId) # {} THEN nextCartId
                   ELSE nextCartId + 1
  /\ UNCHANGED <<cartItems, products, inventory, nextItemId>>

getOrCreateCart(sessionId, userId) ==
  /\ IF CartBySession(sessionId) # {}
     THEN \E cart \in CartBySession(sessionId) :
            IF userId # NoUser /\ cart.userId = NoUser
            THEN LET updated == [cart EXCEPT !.userId = userId]
                 IN  /\ carts' = (carts \ {cart}) \union {updated}
                     /\ result' = [op |-> "getOrCreateCart", error |-> OK,
                                   value |-> updated,
                                   request |-> [sessionId |-> sessionId, userId |-> userId]]
            ELSE /\ carts' = carts
                 /\ result' = [op |-> "getOrCreateCart", error |-> OK,
                               value |-> cart,
                            request |-> [sessionId |-> sessionId, userId |-> userId]]
     ELSE LET cart == [id |-> nextCartId, sessionId |-> sessionId,
                       userId |-> userId]
          IN  /\ carts' = carts \union {cart}
              /\ result' = [op |-> "getOrCreateCart", error |-> OK,
                            value |-> cart,
                            request |-> [sessionId |-> sessionId, userId |-> userId]]
  /\ nextCartId' = IF CartBySession(sessionId) # {} THEN nextCartId
                   ELSE nextCartId + 1
  /\ UNCHANGED <<cartItems, products, inventory, nextItemId>>

\* ---------------------------------------------------------------- addItem
\* The Cart row a new CartItem refers to must exist (foreign key) and the
\* quantity column is an integer: the store rejects the write otherwise.
StoreAcceptsQuantity(q) == IsInteger(q)

addItemRequest(cartId, productId, quantity) ==
  [cartId |-> cartId, productId |-> productId, quantity |-> quantity]

addItemFail(cartId, productId, quantity, error) ==
  /\ result' = [op |-> "addItem", error |-> error, value |-> NoValue,
                request |-> addItemRequest(cartId, productId, quantity)]
  /\ UNCHANGED <<carts, cartItems, products, inventory, nextCartId, nextItemId>>

\* mutant: the accumulated quantity is not checked against available
addItemUpdateExisting_NoStockCheck(existingItem, productId, quantity, available) ==
  LET newQuantity == IntPlus(existingItem.quantity, quantity)
  IN  IF ~StoreAcceptsQuantity(newQuantity)
      THEN addItemFail(existingItem.cartId, productId, quantity, StoreError)
      ELSE LET updatedItem == [existingItem EXCEPT !.quantity = newQuantity.n]
           IN  /\ cartItems' = (cartItems \ {existingItem}) \union {updatedItem}
               /\ result' = [op |-> "addItem", error |-> OK, value |-> updatedItem,
                             request |-> addItemRequest(existingItem.cartId,
                                                        productId, quantity)]
               /\ UNCHANGED <<carts, products, inventory, nextCartId, nextItemId>>

\* mutant: the update also writes priceSnapshot: product.price
addItemUpdateExisting_RefreshPrice(existingItem, productId, quantity, available) ==
  LET newQuantity == IntPlus(existingItem.quantity, quantity)
      product == CHOOSE p \in ProductById(productId) : TRUE
  IN  IF IntLess(available, newQuantity)
      THEN addItemFail(existingItem.cartId, productId, quantity,
                       InsufficientInventoryError(productId, available, newQuantity))
      ELSE IF ~StoreAcceptsQuantity(newQuantity)
      THEN addItemFail(existingItem.cartId, productId, quantity, StoreError)
      ELSE LET updatedItem == [existingItem EXCEPT !.quantity = newQuantity.n,
                                                   !.priceSnapshot = product.price]
           IN  /\ cartItems' = (cartItems \ {existingItem}) \union {updatedItem}
               /\ result' = [op |-> "addItem", error |-> OK, value |-> updatedItem,
                             request |-> addItemRequest(existingItem.cartId,
                                                        productId, quantity)]
               /\ UNCHANGED <<carts, products, inventory, nextCartId, nextItemId>>

\* mutant: the error for the accumulated quantity reports the request's quantity
addItemUpdateExisting_ReportsRequest(existingItem, productId, quantity, available) ==
  LET newQuantity == IntPlus(existingItem.quantity, quantity)
  IN  IF IntLess(available, newQuantity)
      THEN addItemFail(existingItem.cartId, productId, quantity,
                       InsufficientInventoryError(productId, available, quantity))
      ELSE IF ~StoreAcceptsQuantity(newQuantity)
      THEN addItemFail(existingItem.cartId, productId, quantity, StoreError)
      ELSE LET updatedItem == [existingItem EXCEPT !.quantity = newQuantity.n]
           IN  /\ cartItems' = (cartItems \ {existingItem}) \union {updatedItem}
               /\ result' = [op |-> "addItem", error |-> OK, value |-> updatedItem,
                             request |-> addItemRequest(existingItem.cartId,
                                                        productId, quantity)]
               /\ UNCHANGED <<carts, products, inventory, nextCartId, nextItemId>>

addItemUpdateExisting(existingItem, productId, quantity, available) ==
  LET newQuantity == IntPlus(existingItem.quantity, quantity)
  IN  IF IntLess(available, newQuantity)
      THEN addItemFail(existingItem.cartId, productId, quantity,
                       InsufficientInventoryError(productId, available, newQuantity))
      ELSE IF ~StoreAcceptsQuantity(newQuantity)
      THEN addItemFail(existingItem.cartId, productId, quantity, StoreError)
      ELSE LET updatedItem == [existingItem EXCEPT !.quantity = newQuantity.n]
           IN  /\ cartItems' = (cartItems \ {existingItem}) \union {updatedItem}
               /\ result' = [op |-> "addItem", error |-> OK, value |-> updatedItem,
                             request |-> addItemRequest(existingItem.cartId,
                                                        productId, quantity)]
               /\ UNCHANGED <<carts, products, inventory, nextCartId, nextItemId>>

\* mutant: the create also reserves the quantity in the Inventory row
addItemCreate_Reserve(cartId, product, quantity) ==
  IF ~StoreAcceptsQuantity(quantity) \/ CartById(cartId) = {}
  THEN addItemFail(cartId, product.id, quantity, StoreError)
  ELSE LET cartItem == [id |-> nextItemId, cartId |-> cartId,
                        productId |-> product.id, quantity |-> quantity.n,
                        priceSnapshot |-> product.price]
       IN  /\ nextItemId <= MaxItemId
           /\ cartItems' = cartItems \union {cartItem}
           /\ nextItemId' = nextItemId + 1
           /\ inventory' = {IF r.productId = product.id
                            THEN [r EXCEPT !.reserved = r.reserved + quantity.n]
                            ELSE r : r \in inventory}
           /\ result' = [op |-> "addItem", error |-> OK, value |-> cartItem,
                         request |-> addItemRequest(cartId, product.id, quantity)]
           /\ UNCHANGED <<carts, products, nextCartId>>

addItemCreate(cartId, product, quantity) ==
  IF ~StoreAcceptsQuantity(quantity) \/ CartById(cartId) = {}
  THEN addItemFail(cartId, product.id, quantity, StoreError)
  ELSE LET cartItem == [id |-> nextItemId, cartId |-> cartId,
                        productId |-> product.id, quantity |-> quantity.n,
                        priceSnapshot |-> product.price]
       IN  /\ nextItemId <= MaxItemId
           /\ cartItems' = cartItems \union {cartItem}
           /\ nextItemId' = nextItemId + 1
           /\ result' = [op |-> "addItem", error |-> OK, value |-> cartItem,
                         request |-> addItemRequest(cartId, product.id, quantity)]
           /\ UNCHANGED <<carts, products, inventory, nextCartId>>

\* mutant: no lookup of an existing line, a CartItem is created on every add
addItem_AlwaysCreate(cartId, productId, quantity) ==
  IF LeqZero(quantity)
  THEN addItemFail(cartId, productId, quantity, InvalidQuantityError(quantity))
  ELSE IF ProductById(productId) = {}
  THEN addItemFail(cartId, productId, quantity, ProductNotFoundError(productId))
  ELSE IF InventoryOf(productId) = {}
  THEN addItemFail(cartId, productId, quantity,
                   InsufficientInventoryError(productId, 0, quantity))
  ELSE LET product == CHOOSE p \in ProductById(productId) : TRUE
           available == Available(productId)
       IN  IF IntLess(available, quantity)
           THEN addItemFail(cartId, productId, quantity,
                            InsufficientInventoryError(productId, available, quantity))
           ELSE addItemCreate(cartId, product, quantity)

\* mutant: the product is looked up before the quantity is checked
addItem_ProductFirst(cartId, productId, quantity) ==
  IF ProductById(productId) = {}
  THEN addItemFail(cartId, productId, quantity, ProductNotFoundError(productId))
  ELSE IF LeqZero(quantity)
  THEN addItemFail(cartId, productId, quantity, InvalidQuantityError(quantity))
  ELSE IF InventoryOf(productId) = {}
  THEN addItemFail(cartId, productId, quantity,
                   InsufficientInventoryError(productId, 0, quantity))
  ELSE LET product == CHOOSE p \in ProductById(productId) : TRUE
           available == Available(productId)
       IN  IF IntLess(available, quantity)
           THEN addItemFail(cartId, productId, quantity,
                            InsufficientInventoryError(productId, available, quantity))
           ELSE IF LinesOf(cartId, productId) # {}
           THEN \E existingItem \in LinesOf(cartId, productId) :
                  addItemUpdateExisting(existingItem, productId, quantity, available)
           ELSE addItemCreate(cartId, product, quantity)

addItem(cartId, productId, quantity) ==
  IF LeqZero(quantity)
  THEN addItemFail(cartId, productId, quantity, InvalidQuantityError(quantity))
  ELSE IF ProductById(productId) = {}
  THEN addItemFail(cartId, productId, quantity, ProductNotFoundError(productId))
  ELSE IF InventoryOf(productId) = {}
  THEN addItemFail(cartId, productId, quantity,
                   InsufficientInventoryError(productId, 0, quantity))
  ELSE LET product == CHOOSE p \in ProductById(productId) : TRUE
           available == Available(productId)
       IN  IF IntLess(available, quantity)
           THEN addItemFail(cartId, productId, quantity,
                            InsufficientInventoryError(productId, available, quantity))
           ELSE IF LinesOf(cartId, productId) # {}
           THEN \E existingItem \in LinesOf(cartId, productId) :
                  addItemUpdateExisting(existingItem, productId, quantity, available)
           ELSE addItemCreate(cartId, product, quantity)

\* ----------------------------------------------------- updateItemQuantity
updateItemQuantityFail(itemId, quantity, error) ==
  /\ result' = [op |-> "updateItemQuantity", error |-> error, value |-> NoValue,
                request |-> [itemId |-> itemId, quantity |-> quantity]]
  /\ UNCHANGED <<carts, cartItems, products, inventory, nextCartId, nextItemId>>

\* mutant: the new value is added to the line's quantity (data: {quantity:
\* cartItem.quantity + quantity})
updateItemQuantity_Additive(itemId, quantity) ==
  IF LeqZero(quantity)
  THEN updateItemQuantityFail(itemId, quantity, InvalidQuantityError(quantity))
  ELSE IF ItemById(itemId) = {}
  THEN updateItemQuantityFail(itemId, quantity, CartItemNotFoundError(itemId))
  ELSE LET cartItem == CHOOSE i \in ItemById(itemId) : TRUE
           available == Available(cartItem.productId)
       IN  IF InventoryOf(cartItem.productId) = {}
           THEN updateItemQuantityFail(itemId, quantity,
                  InsufficientInventoryError(cartItem.productId, 0, quantity))
           ELSE IF IntLess(available, quantity)
           THEN updateItemQuantityFail(itemId, quantity,
                  InsufficientInventoryError(cartItem.productId, available, quantity))
           ELSE IF ~StoreAcceptsQuantity(quantity)
           THEN updateItemQuantityFail(itemId, quantity, StoreError)
           ELSE LET updatedItem ==
                      [cartItem EXCEPT !.quantity = cartItem.quantity + quantity.n]
                IN  /\ cartItems' = (cartItems \ {cartItem}) \union {updatedItem}
                    /\ result' = [op |-> "updateItemQuantity", error |-> OK,
                                  value |-> updatedItem,
                                  request |-> [itemId |-> itemId,
                                               quantity |-> quantity]]
                    /\ UNCHANGED <<carts, products, inventory, nextCartId, nextItemId>>

\* mutant: the line is looked up before the quantity is checked
updateItemQuantity_LookupFirst(itemId, quantity) ==
  IF ItemById(itemId) = {}
  THEN updateItemQuantityFail(itemId, quantity, CartItemNotFoundError(itemId))
  ELSE IF LeqZero(quantity)
  THEN updateItemQuantityFail(itemId, quantity, InvalidQuantityError(quantity))
  ELSE LET cartItem == CHOOSE i \in ItemById(itemId) : TRUE
           available == Available(cartItem.productId)
       IN  IF InventoryOf(cartItem.productId) = {}
           THEN updateItemQuantityFail(itemId, quantity,
                  InsufficientInventoryError(cartItem.productId, 0, quantity))
           ELSE IF IntLess(available, quantity)
           THEN updateItemQuantityFail(itemId, quantity,
                  InsufficientInventoryError(cartItem.productId, available, quantity))
           ELSE IF ~StoreAcceptsQuantity(quantity)
           THEN updateItemQuantityFail(itemId, quantity, StoreError)
           ELSE LET updatedItem == [cartItem EXCEPT !.quantity = quantity.n]
                IN  /\ cartItems' = (cartItems \ {cartItem}) \union {updatedItem}
                    /\ result' = [op |-> "updateItemQuantity", error |-> OK,
                                  value |-> updatedItem,
                                  request |-> [itemId |-> itemId,
                                               quantity |-> quantity]]
                    /\ UNCHANGED <<carts, products, inventory, nextCartId, nextItemId>>

updateItemQuantity(itemId, quantity) ==
  IF LeqZero(quantity)
  THEN updateItemQuantityFail(itemId, quantity, InvalidQuantityError(quantity))
  ELSE IF ItemById(itemId) = {}
  THEN updateItemQuantityFail(itemId, quantity, CartItemNotFoundError(itemId))
  ELSE LET cartItem == CHOOSE i \in ItemById(itemId) : TRUE
           available == Available(cartItem.productId)
       IN  IF InventoryOf(cartItem.productId) = {}
           THEN updateItemQuantityFail(itemId, quantity,
                  InsufficientInventoryError(cartItem.productId, 0, quantity))
           ELSE IF IntLess(available, quantity)
           THEN updateItemQuantityFail(itemId, quantity,
                  InsufficientInventoryError(cartItem.productId, available, quantity))
           ELSE IF ~StoreAcceptsQuantity(quantity)
           THEN updateItemQuantityFail(itemId, quantity, StoreError)
           ELSE LET updatedItem == [cartItem EXCEPT !.quantity = quantity.n]
                IN  /\ cartItems' = (cartItems \ {cartItem}) \union {updatedItem}
                    /\ result' = [op |-> "updateItemQuantity", error |-> OK,
                                  value |-> updatedItem,
                                  request |-> [itemId |-> itemId,
                                               quantity |-> quantity]]
                    /\ UNCHANGED <<carts, products, inventory, nextCartId, nextItemId>>

\* ------------------------------------------------------------- removeItem
\* mutant: deleteMany by the cart of the item instead of delete by id
removeItem_WholeCart(itemId) ==
  /\ IF ItemById(itemId) = {}
     THEN /\ cartItems' = cartItems
          /\ result' = [op |-> "removeItem", error |-> CartItemNotFoundError(itemId),
                        value |-> NoValue, request |-> [itemId |-> itemId]]
     ELSE \E deletedItem \in ItemById(itemId) :
            /\ cartItems' = {i \in cartItems : i.cartId # deletedItem.cartId}
            /\ result' = [op |-> "removeItem", error |-> OK, value |-> deletedItem,
                          request |-> [itemId |-> itemId]]
  /\ UNCHANGED <<carts, products, inventory, nextCartId, nextItemId>>

\* mutant: deleting a row that does not exist is not an error (deleteMany)
removeItem_Silent(itemId) ==
  /\ cartItems' = cartItems \ ItemById(itemId)
  /\ result' = [op |-> "removeItem", error |-> OK, value |-> NoValue,
                request |-> [itemId |-> itemId]]
  /\ UNCHANGED <<carts, products, inventory, nextCartId, nextItemId>>

removeItem(itemId) ==
  /\ IF ItemById(itemId) = {}
     THEN /\ cartItems' = cartItems
          /\ result' = [op |-> "removeItem", error |-> CartItemNotFoundError(itemId),
                        value |-> NoValue, request |-> [itemId |-> itemId]]
     ELSE \E deletedItem \in ItemById(itemId) :
            /\ cartItems' = cartItems \ {deletedItem}
            /\ result' = [op |-> "removeItem", error |-> OK, value |-> deletedItem,
                          request |-> [itemId |-> itemId]]
  /\ UNCHANGED <<carts, products, inventory, nextCartId, nextItemId>>

\* -------------------------------------------------------------- clearCart
\* mutant: deleteMany without the where clause
clearCart_AllCarts(cartId) ==
  /\ cartItems' = {}
  /\ result' = [op |-> "clearCart", error |-> OK,
                value |-> [count |-> Cardinality(cartItems)],
                request |-> [cartId |-> cartId]]
  /\ UNCHANGED <<carts, products, inventory, nextCartId, nextItemId>>

clearCart(cartId) ==
  /\ cartItems' = cartItems \ ItemsOfCart(cartId)
  /\ result' = [op |-> "clearCart", error |-> OK,
                value |-> [count |-> Cardinality(ItemsOfCart(cartId))],
                request |-> [cartId |-> cartId]]
  /\ UNCHANGED <<carts, products, inventory, nextCartId, nextItemId>>

\* ---------------------------------------------------------------- getCart
ItemTotal(item) == item.priceSnapshot * item.quantity

\* items.reduce((sum, item) => sum + Number(item.priceSnapshot) * item.quantity, 0)
RECURSIVE SumItemTotals(_)
SumItemTotals(items) ==
  IF items = {} THEN 0
  ELSE LET item == CHOOSE i \in items : TRUE
       IN  ItemTotal(item) + SumItemTotals(items \ {item})

\* items.reduce((sum, item) => sum + item.quantity, 0)
RECURSIVE SumQuantities(_)
SumQuantities(items) ==
  IF items = {} THEN 0
  ELSE LET item == CHOOSE i \in items : TRUE
       IN  item.quantity + SumQuantities(items \ {item})

\* Math.round(x / 100) for x >= 0: half-up
RoundDiv100(x) == (x + 50) \div 100

\* amounts in cents
calculateTotals(items) ==
  LET subtotal == SumItemTotals(items)
      tax == RoundDiv100(subtotal * TAX_RATE)
      total == RoundDiv100(subtotal * 100 + subtotal * TAX_RATE)
  IN  [subtotal |-> subtotal, tax |-> tax, total |-> total]

\* mutant: lines report item.product.price instead of item.priceSnapshot
formatCartResponse_LivePrice(cart, items) ==
  LET calculations == calculateTotals(items)
      PriceOf(item) == (CHOOSE p \in ProductById(item.productId) : TRUE).price
  IN  [id |-> cart.id,
       items |-> {[id |-> item.id, productId |-> item.productId,
                   quantity |-> item.quantity,
                   priceSnapshot |-> PriceOf(item),
                   subtotal |-> PriceOf(item) * item.quantity] : item \in items},
       subtotal |-> calculations.subtotal,
       tax |-> calculations.tax,
       total |-> calculations.total,
       itemCount |-> SumQuantities(items)]

formatCartResponse(cart, items) ==
  LET calculations == calculateTotals(items)
  IN  [id |-> cart.id,
       items |-> {[id |-> item.id, productId |-> item.productId,
                   quantity |-> item.quantity,
                   priceSnapshot |-> item.priceSnapshot,
                   subtotal |-> ItemTotal(item)] : item \in items},
       subtotal |-> calculations.subtotal,
       tax |-> calculations.tax,
       total |-> calculations.total,
       itemCount |-> SumQuantities(items)]

EmptyCartResponse(cartId) ==
  [id |-> cartId, items |-> {}, subtotal |-> 0, tax |-> 0, total |-> 0,
   itemCount |-> 0]

\* mutant: a missing Cart is created lazily by the read
getCart_CreatesCart(cartId) ==
  /\ IF CartById(cartId) = {}
     THEN /\ result' = [op |-> "getCart", error |-> OK,
                        value |-> EmptyCartResponse(cartId),
                     request |-> [cartId |-> cartId]]
          /\ carts' = carts \union
                        {[id |-> cartId, sessionId |-> "s1", userId |-> NoUser]}
     ELSE LET cart == CHOOSE c \in CartById(cartId) : TRUE
          IN  /\ result' = [op |-> "getCart", error |-> OK,
                            value |-> formatCartResponse(cart, ItemsOfCart(cartId)),
                         request |-> [cartId |-> cartId]]
              /\ carts' = carts
  /\ UNCHANGED <<cartItems, products, inventory, nextCartId, nextItemId>>

getCart(cartId) ==
  /\ IF CartById(cartId) = {}
     THEN result' = [op |-> "getCart", error |-> OK,
                     value |-> EmptyCartResponse(cartId),
                     request |-> [cartId |-> cartId]]
     ELSE LET cart == CHOOSE c \in CartById(cartId) : TRUE
          IN  result' = [op |-> "getCart", error |-> OK,
                         value |-> formatCartResponse(cart, ItemsOfCart(cartId)),
                         request |-> [cartId |-> cartId]]
  /\ UNCHANGED <<carts, cartItems, products, inventory, nextCartId, nextItemId>>

\* ------------------------------------------------ double-precision numbers
\* The service computes money in JavaScript numbers (IEEE 754 binary64).  A
\* natural number is a little-endian sequence of limbs in base 2^13 without
\* leading zero limbs (<<>> is 0); a double is [m, e], the value m * 2^e with
\* m of at most 53 bits (or m = 2^53).  All values of the model lie far from
\* the subnormal and overflow ranges, which are left out.
LimbBits == 13
Limb == 8192
Precision == 53

RECURSIVE Pow2(_)
Pow2(k) == IF k = 0 THEN 1 ELSE 2 * Pow2(k - 1)

RECURSIVE BitLenSmall(_)
BitLenSmall(n) == IF n = 0 THEN 0 ELSE 1 + BitLenSmall(n \div 2)

RECURSIVE BigTrim(_)
BigTrim(a) ==
  IF a = <<>> THEN a
  ELSE IF a[Len(a)] = 0 THEN BigTrim(SubSeq(a, 1, Len(a) - 1))
  ELSE a

RECURSIVE BigFromInt(_)
BigFromInt(n) == IF n = 0 THEN <<>> ELSE <<n % Limb>> \o BigFromInt(n \div Limb)

RECURSIVE BigToInt(_)
BigToInt(a) == IF a = <<>> THEN 0 ELSE Head(a) + Limb * BigToInt(Tail(a))

BigOne == <<1>>
BigIsOdd(a) == a # <<>> /\ Head(a) % 2 = 1
BigBitLen(a) ==
  IF a = <<>> THEN 0 ELSE LimbBits * (Len(a) - 1) + BitLenSmall(a[Len(a)])

RECURSIVE BigAddCarry(_, _, _)
BigAddCarry(a, b, c) ==
  IF a = <<>> /\ b = <<>> THEN (IF c = 0 THEN <<>> ELSE <<c>>)
  ELSE LET x == IF a = <<>> THEN 0 ELSE Head(a)
           y == IF b = <<>> THEN 0 ELSE Head(b)
           t == x + y + c
       IN  <<t % Limb>> \o BigAddCarry(IF a = <<>> THEN a ELSE Tail(a),
                                       IF b = <<>> THEN b ELSE Tail(b),
                                       t \div Limb)
BigAdd(a, b) == BigAddCarry(a, b, 0)

\* a * s for a small s (s < 2^17)
RECURSIVE BigMulSmallCarry(_, _, _)
BigMulSmallCarry(a, s, c) ==
  IF a = <<>> THEN BigFromInt(c)
  ELSE LET t == Head(a) * s + c
       IN  <<t % Limb>> \o BigMulSmallCarry(Tail(a), s, t \div Limb)
BigMulSmall(a, s) == BigTrim(BigMulSmallCarry(a, s, 0))

RECURSIVE BigMul(_, _)
BigMul(a, b) ==
  IF a = <<>> \/ b = <<>> THEN <<>>
  ELSE LET rest == BigMul(a, Tail(b))
       IN  BigAdd(BigMulSmall(a, Head(b)),
                  IF rest = <<>> THEN <<>> ELSE <<0>> \o rest)

\* -1, 0, 1 as a < b, a = b, a > b
RECURSIVE BigCmp(_, _)
BigCmp(a, b) ==
  IF Len(a) # Len(b) THEN (IF Len(a) < Len(b) THEN -1 ELSE 1)
  ELSE IF a = <<>> THEN 0
  ELSE IF a[Len(a)] # b[Len(b)] THEN (IF a[Len(a)] < b[Len(b)] THEN -1 ELSE 1)
  ELSE BigCmp(SubSeq(a, 1, Len(a) - 1), SubSeq(b, 1, Len(b) - 1))

\* quotient and remainder of (rem * Limb^Len(a) + a) / s for a small s
RECURSIVE BigDivSmallRem(_, _, _)
BigDivSmallRem(a, s, rem) ==
  IF a = <<>> THEN [q |-> <<>>, r |-> rem]
  ELSE LET t == rem * Limb + a[Len(a)]
           rest == BigDivSmallRem(SubSeq(a, 1, Len(a) - 1), s, t % s)
       IN  [q |-> Append(rest.q, t \div s), r |-> rest.r]
BigDivSmall(a, s) ==
  LET d == BigDivSmallRem(a, s, 0) IN [q |-> BigTrim(d.q), r |-> d.r]

\* a * 2^k and floor(a / 2^k)
BigShl(a, k) ==
  IF a = <<>> THEN a
  ELSE [i \in 1..(k \div LimbBits) |-> 0] \o BigMulSmall(a, Pow2(k % LimbBits))
BigShr(a, k) ==
  IF k \div LimbBits >= Len(a) THEN <<>>
  ELSE BigDivSmall(SubSeq(a, k \div LimbBits + 1, Len(a)), Pow2(k % LimbBits)).q

\* N / 2^k against Q + 1/2, for Q = floor(N / 2^k): -1 below, 0 tie, 1 above
BigHalfCmp(N, Q, k) ==
  BigCmp(BigShl(N, 1), BigShl(BigAdd(BigShl(Q, 1), BigOne), k))

DoubleZero == [m |-> <<>>, e |-> 0]

\* the double nearest to N * 2^E, ties to even
RoundToDouble(N, E) ==
  IF BigBitLen(N) <= Precision THEN [m |-> N, e |-> E]
  ELSE LET s == BigBitLen(N) - Precision
           Q == BigShr(N, s)
           c == BigHalfCmp(N, Q, s)
           up == c > 0 \/ (c = 0 /\ BigIsOdd(Q))
       IN  [m |-> IF up THEN BigAdd(Q, BigOne) ELSE Q, e |-> E + s]

\* the double nearest to the decimal num / den (parseFloat, Number(decimal))
DoubleFromRatio(num, den) ==
  IF num = 0 THEN DoubleZero
  ELSE LET k0 == Precision - BitLenSmall(num) + BitLenSmall(den)
           d0 == BigDivSmall(BigShl(BigFromInt(num), k0), den)
           k == IF BigBitLen(d0.q) = Precision THEN k0 ELSE k0 - 1
           d == IF k = k0 THEN d0
                ELSE BigDivSmall(BigShl(BigFromInt(num), k), den)
           up == 2 * d.r > den \/ (2 * d.r = den /\ BigIsOdd(d.q))
       IN  [m |-> IF up THEN BigAdd(d.q, BigOne) ELSE d.q, e |-> -k]

DoubleFromInt(n) == [m |-> BigFromInt(n), e |-> 0]

DoubleMul(x, y) ==
  IF x.m = <<>> \/ y.m = <<>> THEN DoubleZero
  ELSE RoundToDouble(BigMul(x.m, y.m), x.e + y.e)

DoubleAdd(x, y) ==
  IF x.m = <<>> THEN y
  ELSE IF y.m = <<>> THEN x
  ELSE LET e == IF x.e < y.e THEN x.e ELSE y.e
       IN  RoundToDouble(BigAdd(BigShl(x.m, x.e - e), BigShl(y.m, y.e - e)), e)

\* Math.round(x) for x >= 0: the nearest integer, halves upwards
MathRound(x) ==
  IF x.e >= 0 THEN BigToInt(BigShl(x.m, x.e))
  ELSE LET Q == BigShr(x.m, -x.e)
       IN  BigToInt(Q) + (IF BigHalfCmp(x.m, Q, -x.e) >= 0 THEN 1 ELSE 0)

\* Math.round(x * 100) / 100: the result is the double nearest to n / 100 for
\* the integer n = Math.round(x * 100); it is kept as n, its number of cents
RoundToCents(x) == MathRound(DoubleMul(x, DoubleFromInt(100)))

\* Number(item.priceSnapshot) for a Decimal of whole cents
NumberOfDecimal(cents) == DoubleFromRatio(cents, 100)

\* items.reduce((sum, item) => sum + Number(item.priceSnapshot) * item.quantity, 0)
\* over a list of lines, in doubles
RECURSIVE ReduceItemTotals(_, _)
ReduceItemTotals(items, sum) ==
  IF items = <<>> THEN sum
  ELSE LET item == Head(items)
           itemTotal == DoubleMul(NumberOfDecimal(item.priceSnapshot),
                                  DoubleFromInt(item.quantity))
       IN  ReduceItemTotals(Tail(items), DoubleAdd(sum, itemTotal))

RECURSIVE ReduceQuantities(_)
ReduceQuantities(items) ==
  IF items = <<>> THEN 0 ELSE Head(items).quantity + ReduceQuantities(Tail(items))

\* calculateTotals as the service computes it, for the tax rate parsed from
\* the decimal taxRate.num / taxRate.den; amounts are returned in cents
calculateTotalsDouble(items, taxRate) ==
  LET subtotal == ReduceItemTotals(items, DoubleZero)
      tax == DoubleMul(subtotal, DoubleFromRatio(taxRate.num, taxRate.den))
      total == DoubleAdd(subtotal, tax)
  IN  [subtotal |-> RoundToCents(subtotal),
       tax |-> RoundToCents(tax),
       total |-> RoundToCents(total)]

\* ------------------------------------------------------------ environment
\* The catalog changes a product's price (prisma.product.update); the cart
\* service never does.
updateProductPrice(productId, price) ==
  /\ \E product \in ProductById(productId) :
       /\ product.price # price
       /\ products' = (products \ {product}) \union {[product EXCEPT !.price = price]}
  /\ result' = [op |-> "updateProductPrice", error |-> OK, value |-> NoValue,
                request |-> [productId |-> productId, price |-> price]]
  /\ UNCHANGED <<carts, cartItems, inventory, nextCartId, nextItemId>>

\* ------------------------------------------------------------ HTTP routes
\* A handler runs from the arrival of its request to the response; each await
\* of a service call is one step, and http.stage names the call it is about
\* to make.  Requests are handled one at a time.
HttpSessions == {[id |-> s, userId |-> NoUser] : s \in Sessions}
\* the :id parameter: an id of the store, or 0 for a blank one
BlankItemId == 0
RouteItemIds == ItemIds \union {BlankItemId}
\* bodies of POST /items: every quantity for a stocked and a missing product, a
\* blank productId and a quantity that is a string
RouteNumbers == Numbers \ {Num(-1)}
PostBodies ==
  [productId : {"p1", "p4"}, quantity : RouteNumbers, quantityType : {"number"}]
  \union {[productId |-> "", quantity |-> Num(1), quantityType |-> "number"],
          [productId |-> "p1", quantity |-> Num(1), quantityType |-> "string"]}
\* bodies of PUT /items/:id
PutBodies ==
  [productId : {""}, quantity : RouteNumbers, quantityType : {"number"}]
  \union {[productId |-> "", quantity |-> Num(1), quantityType |-> "string"]}
FirstSession == [id |-> "s1", userId |-> NoUser]
UnitBody(productId) ==
  [productId |-> productId, quantity |-> Num(1), quantityType |-> "number"]
\* the first session fills its cart; the others only look at their cart and
\* address lines by id
PostRequests == {FirstSession} \X PostBodies
\* requests on a line: every id and body from the first session, a valid
\* request on every id of the store from the others
PutRequests ==
  ({FirstSession} \X RouteItemIds \X PutBodies)
  \union ((HttpSessions \ {FirstSession}) \X ItemIds \X {UnitBody("")})
DeleteItemRequests ==
  ({FirstSession} \X RouteItemIds)
  \union ((HttpSessions \ {FirstSession}) \X ItemIds)

IsCartError(error) ==
  error.code \in {"INVALID_QUANTITY", "PRODUCT_NOT_FOUND",
                  "INSUFFICIENT_INVENTORY", "CART_ITEM_NOT_FOUND"}

\* error.message of a CartError, without its parameters
ErrorMessage(error) ==
  CASE error.code = "INVALID_QUANTITY" -> "Invalid quantity. Must be greater than 0"
    [] error.code = "PRODUCT_NOT_FOUND" -> "Product not found"
    [] error.code = "INSUFFICIENT_INVENTORY" -> "Insufficient inventory for product"
    [] error.code = "CART_ITEM_NOT_FOUND" -> "Cart item not found"

\* mutant: every error is answered as an unexpected one
handleCartError_Always500(error) ==
  [status |-> 500, error |-> "INTERNAL_SERVER_ERROR",
   message |-> "An unexpected error occurred"]

handleCartError(error) ==
  IF IsCartError(error)
  THEN [status |-> error.statusCode, error |-> error.code,
        message |-> ErrorMessage(error)]
  ELSE [status |-> 500, error |-> "INTERNAL_SERVER_ERROR",
        message |-> "An unexpected error occurred"]

\* mutant: typeof input.quantity !== 'number' only
validateCartItemInput_NoIntegerCheck(body) ==
  /\ body.productId # ""
  /\ body.quantityType = "number"

validateCartItemInput(body) ==
  /\ body.productId # ""
  /\ body.quantityType = "number"
  /\ IsInteger(body.quantity)

validateCartItemUpdate(body) ==
  /\ body.quantityType = "number"
  /\ IsInteger(body.quantity)

\* the store is unreachable or aborts: the call throws an error that is not
\* a CartError and no row changes
serviceThrows(op, request) ==
  /\ result' = [op |-> op, error |-> StoreError, value |-> NoValue,
                request |-> request]
  /\ UNCHANGED <<carts, cartItems, products, inventory, nextCartId, nextItemId>>

\* a request arrives
Arrival(route, session, itemId, body) ==
  [route |-> route, stage |-> "done", session |-> session, itemId |-> itemId,
   body |-> body, cartId |-> 0, response |-> NoResponse,
   before |-> [carts |-> carts, cartItems |-> cartItems]]

Respond(request, status, error, message) ==
  [request EXCEPT !.stage = "done",
                  !.response = [status |-> status, error |-> error,
                                message |-> message]]

\* the response after the last service call of the handler: its success
\* status, or the catch block
RespondResult(request, status) ==
  IF result'.error = OK
  THEN Respond(request, status, "", "")
  ELSE [request EXCEPT !.stage = "done",
                       !.response = handleCartError(result'.error)]

\* cartService.getOrCreateCart(sessionId, req.session.userId), the first
\* call of three handlers; next is the call that follows it
routeGetOrCreateCart(request, next) ==
  \/ /\ getOrCreateCart(request.session.id, request.session.userId)
     /\ http' = [request EXCEPT !.stage = next, !.cartId = result'.value.id]
  \/ /\ serviceThrows("getOrCreateCart",
                      [sessionId |-> request.session.id,
                       userId |-> request.session.userId])
     /\ http' = RespondResult(request, 0)

\* POST /items up to the first await
postItems(session, body) ==
  /\ http.stage = "done"
  /\ nextItemId <= MaxItemId
  /\ LET request == Arrival("POST /items", session, BlankItemId, body)
     IN  IF ~validateCartItemInput(body)
         THEN /\ http' = Respond(request, 400, "INVALID_INPUT",
                                 "Invalid request body")
              /\ UNCHANGED <<carts, cartItems, products, inventory, nextCartId,
                             nextItemId, result>>
         ELSE routeGetOrCreateCart(request, "addItem")

\* POST /items: cartService.addItem(cart.id, {productId, quantity})
postItemsAddItem ==
  /\ http.stage = "addItem"
  /\ \/ addItem(http.cartId, http.body.productId, http.body.quantity)
     \/ serviceThrows("addItem", addItemRequest(http.cartId, http.body.productId,
                                                http.body.quantity))
  /\ http' = RespondResult(http, 201)

\* GET / up to the first await
getCartRoute(session) ==
  /\ http.stage = "done"
  /\ routeGetOrCreateCart(Arrival("GET /", session, BlankItemId, NoBody), "getCart")

\* GET /: cartService.getCart(cart.id)
getCartRouteGetCart ==
  /\ http.stage = "getCart"
  /\ \/ getCart(http.cartId)
     \/ serviceThrows("getCart", [cartId |-> http.cartId])
  /\ http' = RespondResult(http, 200)

\* PUT /items/:id
putItem(session, itemId, body) ==
  /\ http.stage = "done"
  /\ LET request == Arrival("PUT /items/:id", session, itemId, body)
     IN  IF itemId = BlankItemId
         THEN /\ http' = Respond(request, 400, "INVALID_ITEM_ID",
                                 "Valid item ID is required")
              /\ UNCHANGED <<carts, cartItems, products, inventory, nextCartId,
                             nextItemId, result>>
         ELSE IF ~validateCartItemUpdate(body)
         THEN /\ http' = Respond(request, 400, "INVALID_INPUT",
                                 "Invalid request body")
              /\ UNCHANGED <<carts, cartItems, products, inventory, nextCartId,
                             nextItemId, result>>
         ELSE /\ \/ updateItemQuantity(itemId, body.quantity)
                 \/ serviceThrows("updateItemQuantity",
                                  [itemId |-> itemId, quantity |-> body.quantity])
              /\ http' = RespondResult(request, 200)

\* DELETE /items/:id
deleteItem(session, itemId) ==
  /\ http.stage = "done"
  /\ LET request == Arrival("DELETE /items/:id", session, itemId, NoBody)
     IN  IF itemId = BlankItemId
         THEN /\ http' = Respond(request, 400, "INVALID_ITEM_ID",
                                 "Valid item ID is required")
              /\ UNCHANGED <<carts, cartItems, products, inventory, nextCartId,
                             nextItemId, result>>
         ELSE /\ \/ removeItem(itemId)
                 \/ serviceThrows("removeItem", [itemId |-> itemId])
              /\ http' = RespondResult(request, 204)

\* DELETE / up to the first await
deleteCart(session) ==
  /\ http.stage = "done"
  /\ routeGetOrCreateCart(Arrival("DELETE /", session, BlankItemId, NoBody),
                          "clearCart")

\* DELETE /: cartService.clearCart(cart.id)
deleteCartClearCart ==
  /\ http.stage = "clearCart"
  /\ \/ clearCart(http.cartId)
     \/ serviceThrows("clearCart", [cartId |-> http.cartId])
  /\ http' = RespondResult(http, 204)

NextRoutes ==
  \/ \E r \in PostRequests : postItems(r[1], r[2]) /\ UNCHANGED <<calls, authVars, connection, paymentVars>>
  \/ postItemsAddItem /\ UNCHANGED <<calls, authVars, connection, paymentVars>>
  \/ \E session \in HttpSessions : getCartRoute(session) /\ UNCHANGED <<calls, authVars, connection, paymentVars>>
  \/ getCartRouteGetCart /\ UNCHANGED <<calls, authVars, connection, paymentVars>>
  \/ \E r \in PutRequests : putItem(r[1], r[2], r[3]) /\ UNCHANGED <<calls, authVars, connection, paymentVars>>
  \/ \E r \in DeleteItemRequests : deleteItem(r[1], r[2]) /\ UNCHANGED <<calls, authVars, connection, paymentVars>>
  \/ \E session \in HttpSessions : deleteCart(session) /\ UNCHANGED <<calls, authVars, connection, paymentVars>>
  \/ deleteCartClearCart /\ UNCHANGED <<calls, authVars, connection, paymentVars>>

SpecRoutes == Init /\ [][NextRoutes]_vars

\* Cart lines: two guest sessions, every operation of the service.
Next ==
  \/ \E s \in Sessions : getOrCreateCart(s, NoUser) /\ UNCHANGED <<http, calls, authVars, connection, paymentVars>>
  \/ \E r \in AddItemRequests : addItem(r[1], r[2], r[3]) /\ UNCHANGED <<http, calls, authVars, connection, paymentVars>>
  \/ \E i \in ItemIds, q \in Numbers : updateItemQuantity(i, q) /\ UNCHANGED <<http, calls, authVars, connection, paymentVars>>
  \/ \E i \in ItemIds : removeItem(i) /\ UNCHANGED <<http, calls, authVars, connection, paymentVars>>
  \/ \E c \in CartIds : clearCart(c) /\ UNCHANGED <<http, calls, authVars, connection, paymentVars>>
  \/ \E c \in CartIds : getCart(c) /\ UNCHANGED <<http, calls, authVars, connection, paymentVars>>

Spec == Init /\ [][Next]_vars

\* Price snapshots: one guest session whose cart holds the stocked products
\* while the catalog reprices them.
NextPrice ==
  \/ getOrCreateCart("s1", NoUser) /\ UNCHANGED <<http, calls, authVars, connection, paymentVars>>
  \/ \E p \in StockedProducts, q \in Numbers : addItem(1, p, q) /\ UNCHANGED <<http, calls, authVars, connection, paymentVars>>
  \/ \E i \in ItemIds, q \in Numbers : updateItemQuantity(i, q) /\ UNCHANGED <<http, calls, authVars, connection, paymentVars>>
  \/ \E i \in ItemIds : removeItem(i) /\ UNCHANGED <<http, calls, authVars, connection, paymentVars>>
  \/ clearCart(1) /\ UNCHANGED <<http, calls, authVars, connection, paymentVars>>
  \/ getCart(1) /\ UNCHANGED <<http, calls, authVars, connection, paymentVars>>
  \/ \E p \in RepricedProducts, price \in Prices :
       updateProductPrice(p, price) /\ UNCHANGED <<http, calls, authVars, connection, paymentVars>>

SpecPrice == Init /\ [][NextPrice]_vars

\* Session binding: guest and authenticated calls on the sessions, the carts
\* holding single units of one product.
NextSession ==
  \/ \E su \in SessionUsers : getOrCreateCart(su[1], su[2]) /\ UNCHANGED <<http, calls, authVars, connection, paymentVars>>
  \/ \E c \in CartIds : addItem(c, "p1", Num(1)) /\ UNCHANGED <<http, calls, authVars, connection, paymentVars>>
  \/ \E i \in ItemIds : updateItemQuantity(i, Num(1)) /\ UNCHANGED <<http, calls, authVars, connection, paymentVars>>
  \/ \E i \in ItemIds : removeItem(i) /\ UNCHANGED <<http, calls, authVars, connection, paymentVars>>
  \/ \E c \in CartIds : clearCart(c) /\ UNCHANGED <<http, calls, authVars, connection, paymentVars>>
  \/ \E c \in CartIds : getCart(c) /\ UNCHANGED <<http, calls, authVars, connection, paymentVars>>

SpecSession == Init /\ [][NextSession]_vars

\* Totals: the cart of a getCart call holds a list of lines, the service is
\* configured with a tax rate, and the totals of the response are computed.
Lines == [priceSnapshot : LinePrices, quantity : 1..MaxLineQuantity]
LineLists == UNION {[1..n -> Lines] : n \in 1..MaxLines}

InitTotals ==
  /\ carts = {}
  /\ cartItems = {}
  /\ products = {[id |-> p, price |-> BasePrice] : p \in CatalogProducts}
  /\ inventory = {}
  /\ nextCartId = 1
  /\ nextItemId = 1
  /\ result \in {[op |-> "totalsRequest", error |-> OK, value |-> NoValue,
                  request |-> [items |-> items, taxRate |-> taxRate]] :
                   items \in LineLists, taxRate \in TaxRates}
  /\ http = NoRequest
  /\ calls = [c \in CallIds |-> NoCall]
  /\ refreshTokens = {}
  /\ now = 0
  /\ nextTokenId = 1
  /\ connection = NoConnection
  /\ intents = {}
  /\ payments = {}

\* formatCartResponse's totals for the requested lines: calculateTotals in
\* doubles and itemCount
formatCartTotals ==
  /\ result.op = "totalsRequest"
  /\ LET calculations == calculateTotalsDouble(result.request.items,
                                               result.request.taxRate)
     IN  result' = [result EXCEPT
                      !.op = "formatCartTotals",
                      !.value = [subtotal |-> calculations.subtotal,
                                 tax |-> calculations.tax,
                                 total |-> calculations.total,
                                 itemCount |-> ReduceQuantities(result.request.items)]]
  /\ UNCHANGED <<carts, cartItems, products, inventory, nextCartId, nextItemId,
                 http, calls, authVars, connection, paymentVars>>

NextTotals == formatCartTotals

SpecTotals == InitTotals /\ [][NextTotals]_vars

\* ------------------------------------------------------- concurrent calls
\* Calls of getOrCreateCart and addItem in flight together.  Every store call
\* (await) of a call is one step and the steps of different calls interleave.
\* The store is PostgreSQL at its default isolation, read committed: a read
\* sees the rows committed so far, and the one write of addItem's transaction
\* becomes visible when the transaction commits, so the write and the commit
\* are one step.
\* The calls start on a store that holds no cart yet, the cart of s1, or the
\* carts of both sessions; the cart of s1 is empty or holds one unit of p1.
ConcurrentCarts ==
  {{}, {[id |-> 1, sessionId |-> "s1", userId |-> NoUser]},
   {[id |-> 1, sessionId |-> "s1", userId |-> NoUser],
    [id |-> 2, sessionId |-> "s2", userId |-> NoUser]}}
ConcurrentLines ==
  {{}, {[id |-> 1, cartId |-> 1, productId |-> "p1", quantity |-> 1,
         priceSnapshot |-> BasePrice]}}

InitConcurrent ==
  /\ carts \in ConcurrentCarts
  /\ cartItems \in {lines \in ConcurrentLines :
                      \A i \in lines : \E c \in carts : c.id = i.cartId}
  /\ products = {[id |-> p, price |-> BasePrice] : p \in CatalogProducts}
  /\ inventory = {[productId |-> "p1", quantity |-> MaxStock, reserved |-> 0],
                  [productId |-> "p2", quantity |-> MaxStock, reserved |-> MaxReserved]}
  /\ nextCartId = Cardinality(carts) + 1
  /\ nextItemId = Cardinality(cartItems) + 1
  /\ result = [op |-> "init", error |-> OK, value |-> NoValue,
               request |-> NoValue]
  /\ http = NoRequest
  /\ calls = [c \in CallIds |-> NoCall]
  /\ refreshTokens = {}
  /\ now = 0
  /\ nextTokenId = 1
  /\ connection = NoConnection
  /\ intents = {}
  /\ payments = {}

ConcurrentCartRequests == {<<"s1", NoUser>>, <<"s1", "u1">>, <<"s2", NoUser>>}
ConcurrentAddRequests == CartIds \X {"p1"} \X {Num(1), Num(MaxStock)}

\* the call returns value or throws error
Return(c, call, error, value) ==
  /\ calls' = [calls EXCEPT ![c] = [call EXCEPT !.pc = "done", !.error = error,
                                                !.value = value]]
  /\ result' = result

\* the call goes on to its next store call
Await(c, call, pc) ==
  /\ calls' = [calls EXCEPT ![c] = [call EXCEPT !.pc = pc]]
  /\ result' = result

\* every slot runs one call; a call starts in the first free slot
Free(c) ==
  /\ calls[c].pc = "idle"
  /\ \A d \in CallIds : d < c => calls[d].pc # "idle"

\* getOrCreateCart: prisma.cart.findUnique({where: {sessionId}})
findCart(c, sessionId, userId) ==
  /\ Free(c)
  /\ LET call == [NoCall EXCEPT !.op = "getOrCreateCart",
                                !.request = [sessionId |-> sessionId,
                                             userId |-> userId]]
     IN  IF CartBySession(sessionId) # {}
         THEN \E cart \in CartBySession(sessionId) :
                IF userId # NoUser /\ cart.userId = NoUser
                THEN Await(c, [call EXCEPT !.cart = cart], "updateCart")
                ELSE Return(c, [call EXCEPT !.cart = cart], OK, cart)
         ELSE Await(c, call, "createCart")
  /\ UNCHANGED <<carts, cartItems, products, inventory, nextCartId, nextItemId,
                 http, authVars, connection, paymentVars>>

\* getOrCreateCart: prisma.cart.update({where: {id: cart.id}, data: {userId}})
updateCart(c) ==
  /\ calls[c].pc = "updateCart"
  /\ LET call == calls[c]
     IN  IF CartById(call.cart.id) = {}
         THEN /\ Return(c, call, StoreError, NoValue)
              /\ carts' = carts
         ELSE \E row \in CartById(call.cart.id) :
                LET updated == [row EXCEPT !.userId = call.request.userId]
                IN  /\ carts' = (carts \ {row}) \union {updated}
                    /\ Return(c, call, OK, updated)
  /\ UNCHANGED <<cartItems, products, inventory, nextCartId, nextItemId,
                 http, authVars, connection, paymentVars>>

\* getOrCreateCart: prisma.cart.create({data: {sessionId, userId}}).  sessionId
\* is a unique column (it is the key of findUnique): the insert of a second
\* row for it fails, and the catch block rethrows the store's error.
createCart(c) ==
  /\ calls[c].pc = "createCart"
  /\ LET call == calls[c]
         cart == [id |-> nextCartId, sessionId |-> call.request.sessionId,
                  userId |-> call.request.userId]
     IN  IF CartBySession(call.request.sessionId) # {}
         THEN /\ Return(c, call, StoreError, NoValue)
              /\ UNCHANGED <<carts, nextCartId>>
         ELSE /\ carts' = carts \union {cart}
              /\ nextCartId' = nextCartId + 1
              /\ Return(c, call, OK, cart)
  /\ UNCHANGED <<cartItems, products, inventory, nextItemId, http, authVars, connection, paymentVars>>

\* addItem up to the end of its first read: the quantity check, then inside
\* the transaction tx.product.findUnique({include: {inventory}}) and the
\* availability check.  The route has obtained the cart before.
findProduct(c, cartId, productId, quantity) ==
  /\ Free(c)
  /\ CartById(cartId) # {}
  /\ LET call == [NoCall EXCEPT !.op = "addItem",
                                !.request = addItemRequest(cartId, productId,
                                                           quantity)]
     IN  IF LeqZero(quantity)
         THEN Return(c, call, InvalidQuantityError(quantity), NoValue)
         ELSE IF ProductById(productId) = {}
         THEN Return(c, call, ProductNotFoundError(productId), NoValue)
         ELSE IF InventoryOf(productId) = {}
         THEN Return(c, call, InsufficientInventoryError(productId, 0, quantity),
                     NoValue)
         ELSE LET product == CHOOSE p \in ProductById(productId) : TRUE
                  available == Available(productId)
              IN  IF IntLess(available, quantity)
                  THEN Return(c, call,
                              InsufficientInventoryError(productId, available,
                                                         quantity), NoValue)
                  ELSE Await(c, [call EXCEPT !.product = product,
                                             !.available = available],
                             "findExistingItem")
  /\ UNCHANGED <<carts, cartItems, products, inventory, nextCartId, nextItemId,
                 http, authVars, connection, paymentVars>>

\* addItem: tx.cartItem.findFirst({where: {cartId, productId}}) and the check
\* of the accumulated quantity against the available stock read before
findExistingItem(c) ==
  /\ calls[c].pc = "findExistingItem"
  /\ LET call == calls[c]
         request == call.request
     IN  IF LinesOf(request.cartId, request.productId) # {}
         THEN \E existingItem \in LinesOf(request.cartId, request.productId) :
                LET newQuantity == IntPlus(existingItem.quantity, request.quantity)
                IN  IF IntLess(call.available, newQuantity)
                    THEN Return(c, call,
                                InsufficientInventoryError(request.productId,
                                                           call.available,
                                                           newQuantity), NoValue)
                    ELSE Await(c, [call EXCEPT !.existingItem = existingItem],
                               "updateCartItem")
         ELSE Await(c, call, "createCartItem")
  /\ UNCHANGED <<carts, cartItems, products, inventory, nextCartId, nextItemId,
                 http, authVars, connection, paymentVars>>

\* addItem: tx.cartItem.update({where: {id: existingItem.id},
\* data: {quantity: newQuantity}}) and the commit.  newQuantity was computed
\* from the row as it was read.
updateCartItem(c) ==
  /\ calls[c].pc = "updateCartItem"
  /\ LET call == calls[c]
         newQuantity == IntPlus(call.existingItem.quantity, call.request.quantity)
     IN  IF ItemById(call.existingItem.id) = {} \/ ~StoreAcceptsQuantity(newQuantity)
         THEN /\ Return(c, call, StoreError, NoValue)
              /\ cartItems' = cartItems
         ELSE \E row \in ItemById(call.existingItem.id) :
                LET updatedItem == [row EXCEPT !.quantity = newQuantity.n]
                IN  /\ cartItems' = (cartItems \ {row}) \union {updatedItem}
                    /\ Return(c, call, OK, updatedItem)
  /\ UNCHANGED <<carts, products, inventory, nextCartId, nextItemId, http,
                 authVars, connection, paymentVars>>

\* mutant: the create also reserves the quantity in the Inventory row
createCartItem_Reserve(c) ==
  /\ calls[c].pc = "createCartItem"
  /\ LET call == calls[c]
         request == call.request
         cartItem == [id |-> nextItemId, cartId |-> request.cartId,
                      productId |-> request.productId,
                      quantity |-> request.quantity.n,
                      priceSnapshot |-> call.product.price]
     IN  /\ cartItems' = cartItems \union {cartItem}
         /\ nextItemId' = nextItemId + 1
         /\ inventory' = {IF r.productId = request.productId
                          THEN [r EXCEPT !.reserved = r.reserved + request.quantity.n]
                          ELSE r : r \in inventory}
         /\ Return(c, call, OK, cartItem)
  /\ UNCHANGED <<carts, products, nextCartId, http, authVars, connection, paymentVars>>

\* addItem: tx.cartItem.create({data: {cartId, productId, quantity,
\* priceSnapshot: product.price}}) and the commit.  When the cart has got a
\* line for the product since the lookup, the store either adds a second row
\* or, if the table has a unique index on (cartId, productId), fails the
\* insert.
createCartItem(c) ==
  /\ calls[c].pc = "createCartItem"
  /\ LET call == calls[c]
         request == call.request
         cartItem == [id |-> nextItemId, cartId |-> request.cartId,
                      productId |-> request.productId,
                      quantity |-> request.quantity.n,
                      priceSnapshot |-> call.product.price]
     IN  IF ~StoreAcceptsQuantity(request.quantity) \/ CartById(request.cartId) = {}
         THEN /\ Return(c, call, StoreError, NoValue)
              /\ UNCHANGED <<cartItems, nextItemId>>
         ELSE \/ /\ cartItems' = cartItems \union {cartItem}
                 /\ nextItemId' = nextItemId + 1
                 /\ Return(c, call, OK, cartItem)
              \/ /\ LinesOf(request.cartId, request.productId) # {}
                 /\ Return(c, call, StoreError, NoValue)
                 /\ UNCHANGED <<cartItems, nextItemId>>
  /\ UNCHANGED <<carts, products, inventory, nextCartId, http, authVars, connection, paymentVars>>

NextConcurrent ==
  \/ \E c \in CallIds, r \in ConcurrentCartRequests : findCart(c, r[1], r[2])
  \/ \E c \in CallIds : updateCart(c)
  \/ \E c \in CallIds : createCart(c)
  \/ \E c \in CallIds, r \in ConcurrentAddRequests :
       findProduct(c, r[1], r[2], r[3])
  \/ \E c \in CallIds : findExistingItem(c)
  \/ \E c \in CallIds : updateCartItem(c)
  \/ \E c \in CallIds : createCartItem(c)

SpecConcurrent == InitConcurrent /\ [][NextConcurrent]_vars

\* ---------------------------------------------------------- authentication
\* AuthService (services/auth.service.ts), its calls one at a time.  The User
\* rows are the seeded Users.  The clock counts seconds in which something
\* happens; Tick passes to a later second.
Error(message) == [code |-> "ERROR", message |-> message]

\* jwt.sign({userId, email: ''}, jwtRefreshSecret, {expiresIn}): the token is
\* the signed payload with iat, the second of signing, and exp; no other
\* input enters it, so one user's tokens signed in the same second are equal
SignRefreshToken(userId) ==
  [userId |-> userId, iat |-> now, exp |-> now + RefreshExpiry]
\* jwt.sign({userId, email}, jwtSecret, {expiresIn})
generateAccessToken(userId) == [userId |-> userId, iat |-> now, access |-> TRUE]
\* jwt.verify(token, jwtRefreshSecret): the signature is the service's and
\* exp has not come
VerifyRefreshToken(token) == now < token.exp

\* refresh tokens a client may present: every token the service can sign
PresentedTokens ==
  {[userId |-> u, iat |-> i, exp |-> i + RefreshExpiry] : u \in Users, i \in 0..MaxTime}
LoginEmails == Users \union {"nobody"}

\* prisma.refreshToken.findUnique({where: {token}}): token is a unique column
StoredToken(token) == {row \in refreshTokens : row.token = token}

\* the row generateRefreshToken creates for the user
generateRefreshToken(userId) ==
  [id |-> nextTokenId, token |-> SignRefreshToken(userId), userId |-> userId,
   expiresAt |-> now + RefreshExpiry]

authReturn(op, request, error, value) ==
  /\ result' = [op |-> op, error |-> error, value |-> value, request |-> request]
  /\ UNCHANGED <<carts, cartItems, products, inventory, nextCartId, nextItemId,
                 http, calls, now, connection, paymentVars>>

\* login: the user is looked up, the password compared, the tokens generated;
\* prisma.refreshToken.create fails on a token that is already stored
login(email, isPasswordValid) ==
  LET request == [email |-> email]
      row == generateRefreshToken(email)
  IN  IF email \notin Users \/ ~isPasswordValid
      THEN /\ authReturn("login", request, Error("Invalid credentials"), NoValue)
           /\ UNCHANGED <<refreshTokens, nextTokenId>>
      ELSE IF StoredToken(row.token) # {}
      THEN /\ authReturn("login", request, StoreError, NoValue)
           /\ UNCHANGED <<refreshTokens, nextTokenId>>
      ELSE /\ nextTokenId <= MaxTokenId
           /\ refreshTokens' = refreshTokens \union {row}
           /\ nextTokenId' = nextTokenId + 1
           /\ authReturn("login", request, OK,
                         [accessToken |-> generateAccessToken(email),
                          refreshToken |-> row.token])

refreshTokenFail(token, error, deleted) ==
  /\ authReturn("refreshToken", [token |-> token], error, NoValue)
  /\ refreshTokens' = refreshTokens \ deleted
  /\ UNCHANGED nextTokenId

\* mutant: the old refresh token is not deleted
refreshToken_KeepOld(token) ==
  /\ IF StoredToken(token) = {}
     THEN refreshTokenFail(token, Error("Invalid refresh token"), {})
     ELSE \E storedToken \in StoredToken(token) :
            LET row == generateRefreshToken(storedToken.userId)
            IN  IF storedToken.expiresAt < now
                THEN refreshTokenFail(token, Error("Refresh token expired"),
                                      {storedToken})
                ELSE IF ~VerifyRefreshToken(token)
                THEN refreshTokenFail(token, Error("Invalid refresh token"),
                                      {storedToken})
                ELSE IF StoredToken(row.token) # {}
                THEN refreshTokenFail(token, StoreError, {})
                ELSE /\ nextTokenId <= MaxTokenId
                     /\ refreshTokens' = refreshTokens \union {row}
                     /\ nextTokenId' = nextTokenId + 1
                     /\ authReturn("refreshToken", [token |-> token], OK,
                                   [accessToken |-> generateAccessToken(storedToken.userId),
                                    refreshToken |-> row.token])

\* refreshToken: the stored row is looked up; an expired row, or one whose
\* token fails jwt.verify, is deleted and the call throws; otherwise new
\* tokens are generated and stored, and then the old row is deleted.  In the
\* second of its expiry a row is past expiresAt or not (expiresAt carries
\* milliseconds), while the token's exp has come.
refreshToken(token) ==
  /\ IF StoredToken(token) = {}
     THEN refreshTokenFail(token, Error("Invalid refresh token"), {})
     ELSE \E storedToken \in StoredToken(token) :
            LET row == generateRefreshToken(storedToken.userId)
            IN  \/ /\ storedToken.expiresAt <= now
                   /\ refreshTokenFail(token, Error("Refresh token expired"),
                                       {storedToken})
                \/ /\ storedToken.expiresAt >= now
                   /\ IF ~VerifyRefreshToken(token)
                      THEN refreshTokenFail(token, Error("Invalid refresh token"),
                                            {storedToken})
                      ELSE IF StoredToken(row.token) # {}
                      THEN refreshTokenFail(token, StoreError, {})
                      ELSE /\ nextTokenId <= MaxTokenId
                           /\ refreshTokens' =
                                (refreshTokens \union {row}) \ {storedToken}
                           /\ nextTokenId' = nextTokenId + 1
                           /\ authReturn("refreshToken", [token |-> token], OK,
                                         [accessToken |->
                                            generateAccessToken(storedToken.userId),
                                          refreshToken |-> row.token])

\* mutant: count === 0 is not reported
logout_Silent(token) ==
  /\ refreshTokens' = refreshTokens \ StoredToken(token)
  /\ authReturn("logout", [token |-> token], OK, NoValue)
  /\ UNCHANGED nextTokenId

\* logout: prisma.refreshToken.deleteMany({where: {token}}), count 0 throws
logout(token) ==
  /\ refreshTokens' = refreshTokens \ StoredToken(token)
  /\ authReturn("logout", [token |-> token],
                IF StoredToken(token) = {} THEN Error("Refresh token not found")
                ELSE OK, NoValue)
  /\ UNCHANGED nextTokenId

\* the clock passes to the next second in which something happens
Tick ==
  /\ now < MaxTime
  /\ now' = now + 1
  /\ UNCHANGED <<carts, cartItems, products, inventory, nextCartId, nextItemId,
                 result, http, calls, refreshTokens, nextTokenId, connection,
                 paymentVars>>

NextAuth ==
  \/ \E email \in LoginEmails, isPasswordValid \in BOOLEAN :
       login(email, isPasswordValid)
  \/ \E token \in PresentedTokens : refreshToken(token)
  \/ \E token \in PresentedTokens : logout(token)
  \/ Tick

SpecAuth == Init /\ [][NextAuth]_vars

\* =================================================================== claims
\* Every step of Spec performs one call and records it in result', so a
\* step is identified by result'.op and result'.request.
NonPositive(q) == q.n < 0 \/ (q.n = 0 /\ ~q.half)
Positive(q) == ~NonPositive(q)
\* q > a for an integer a
Exceeds(q, a) == q.n > a \/ (q.n = a /\ q.half)
Succeeded(r) == r.error.code = "OK"
Failed(r, code) == r.error.code = code
ItemIdsIn(items) == {i.id : i \in items}

\* --- C1 -------------------------------------------------------------------
\* the line quantity a successful addItem(c, p, q) would leave
ResultingAdd(c, p, q) ==
  IF LinesOf(c, p) = {} THEN q
  ELSE IntPlus((CHOOSE i \in LinesOf(c, p) : TRUE).quantity, q)

QuantityWithinAvailable ==
  \A i \in cartItems : i.quantity <= Available(i.productId)

OversellingAddRejected ==
  LET r == result'.request
  IN  ( /\ result'.op = "addItem"
        /\ Positive(r.quantity)
        /\ ProductById(r.productId) # {}
        /\ Exceeds(ResultingAdd(r.cartId, r.productId, r.quantity),
                   Available(r.productId)) )
      => /\ Failed(result', "INSUFFICIENT_INVENTORY")
         /\ cartItems' = cartItems

OversellingUpdateRejected ==
  LET r == result'.request
  IN  ( /\ result'.op = "updateItemQuantity"
        /\ Positive(r.quantity)
        /\ \E item \in ItemById(r.itemId) :
             Exceeds(r.quantity, Available(item.productId)) )
      => /\ Failed(result', "INSUFFICIENT_INVENTORY")
         /\ cartItems' = cartItems

\* C1: with Inventory fixed, every addItem or updateItemQuantity whose
\* resulting line quantity would exceed available (quantity - reserved, 0
\* without an Inventory row) fails with InsufficientInventory and leaves the
\* CartItems unchanged; so every CartItem's quantity is <= available.
C1_OversellPrevention ==
  /\ []QuantityWithinAvailable
  /\ [][OversellingAddRejected /\ OversellingUpdateRejected]_vars

\* an accumulating add was refused while the line sits at full stock
C1_Witness ==
  /\ result.op = "addItem"
  /\ Failed(result, "INSUFFICIENT_INVENTORY")
  /\ \E i \in LinesOf(result.request.cartId, result.request.productId) :
       /\ i.quantity = Available(i.productId)
       /\ result.error.requested = IntPlus(i.quantity, result.request.quantity)
       /\ ~Exceeds(result.request.quantity, Available(i.productId))

\* --- C2 -------------------------------------------------------------------
OneLinePerProduct ==
  \A c \in CartIds, p \in ProductIds : Cardinality(LinesOf(c, p)) <= 1

AddExistingIncrements ==
  LET r == result'.request
  IN  ( /\ result'.op = "addItem"
        /\ Succeeded(result')
        /\ LinesOf(r.cartId, r.productId) # {} )
      => /\ Cardinality(cartItems') = Cardinality(cartItems)
         /\ \E old \in LinesOf(r.cartId, r.productId) :
              \E new \in cartItems' :
                /\ new.id = old.id
                /\ new.cartId = r.cartId
                /\ new.productId = r.productId
                /\ new.quantity = old.quantity + r.quantity.n

\* C2: after any sequence of addItem, updateItemQuantity, removeItem and
\* clearCart calls each cart holds at most one CartItem per productId; an
\* addItem for a product already in the cart increments that line and adds no
\* row.
C2_OneLinePerProduct ==
  /\ []OneLinePerProduct
  /\ [][AddExistingIncrements]_vars

\* two adds of the same product went through and only one row was created
C2_Witness ==
  /\ result.op = "addItem"
  /\ Succeeded(result)
  /\ result.value.quantity > result.request.quantity.n
  /\ nextItemId = 2
  /\ Cardinality(LinesOf(result.request.cartId, result.request.productId)) = 1

\* --- C3 -------------------------------------------------------------------
FirstAddCreatesLine ==
  LET r == result'.request
  IN  ( /\ result'.op = "addItem"
        /\ Succeeded(result')
        /\ LinesOf(r.cartId, r.productId) = {} )
      => \E product \in ProductById(r.productId) :
           /\ result'.value.quantity = r.quantity.n
           /\ result'.value.priceSnapshot = product.price
           /\ result'.value.id \notin ItemIdsIn(cartItems)
           /\ {i \in cartItems' : i.cartId = r.cartId /\ i.productId = r.productId}
                = {result'.value}

SecondAddAccumulates ==
  LET r == result'.request
  IN  ( /\ result'.op = "addItem"
        /\ Succeeded(result')
        /\ LinesOf(r.cartId, r.productId) # {} )
      => \E old \in LinesOf(r.cartId, r.productId) :
           /\ result'.value.id = old.id
           /\ result'.value.quantity = old.quantity + r.quantity.n
           /\ result'.value.priceSnapshot = old.priceSnapshot
           /\ {i \in cartItems' : i.cartId = r.cartId /\ i.productId = r.productId}
                = {result'.value}

\* C3: addItem(cart, p, q1) then addItem(cart, p, q2), both admitted, return
\* the same CartItem id and leave exactly one line for p with quantity q1+q2
\* whose priceSnapshot is the product's price at the first add, also when the
\* product's price changed in between.
C3_IdempotentAccumulation ==
  [][FirstAddCreatesLine /\ SecondAddAccumulates]_vars

\* the second add returned the accumulated line after the price had changed
C3_Witness ==
  /\ result.op = "addItem"
  /\ Succeeded(result)
  /\ result.value.quantity = 2
  /\ result.request.quantity = Num(1)
  /\ result.value \in cartItems
  /\ \E product \in ProductById(result.value.productId) :
       product.price # result.value.priceSnapshot

\* --- C4 -------------------------------------------------------------------
SnapshotNeverChanges ==
  \A i \in cartItems : \A j \in cartItems' :
    j.id = i.id => j.priceSnapshot = i.priceSnapshot

SnapshotSetAtCreation ==
  \A j \in cartItems' :
    j.id \notin ItemIdsIn(cartItems)
    => \E product \in ProductById(j.productId) : j.priceSnapshot = product.price

\* the response of the last getCart shows every line of the cart with the
\* snapshot stored in its row
GetCartReportsSnapshot ==
  (result.op = "getCart" /\ CartById(result.request.cartId) # {})
  => /\ {l.id : l \in result.value.items}
          = ItemIdsIn(ItemsOfCart(result.request.cartId))
     /\ \A l \in result.value.items : \A i \in cartItems :
          i.id = l.id => l.priceSnapshot = i.priceSnapshot

\* C4: a CartItem's priceSnapshot is the product's price when the line is
\* created and no catalog price change, accumulating addItem,
\* updateItemQuantity or removal of other lines changes it; getCart reports
\* that value.
C4_PriceImmutability ==
  /\ [][SnapshotNeverChanges /\ SnapshotSetAtCreation]_vars
  /\ []GetCartReportsSnapshot

\* getCart reported a line at its old price after the catalog price moved
C4_Witness ==
  /\ result.op = "getCart"
  /\ \E l \in result.value.items :
       \E product \in ProductById(l.productId) :
         /\ l.priceSnapshot = BasePrice
         /\ product.price # BasePrice

\* --- C5 -------------------------------------------------------------------
DbUnchanged == UNCHANGED <<carts, cartItems, products, inventory>>
QuantityCall(r) == r.op \in {"addItem", "updateItemQuantity"}

InvalidQuantityRejected ==
  (QuantityCall(result') /\ NonPositive(result'.request.quantity))
  => (Failed(result', "INVALID_QUANTITY") /\ DbUnchanged)

NonIntegerRejected ==
  (QuantityCall(result') /\ ~IsInteger(result'.request.quantity))
  => (Failed(result', "INVALID_QUANTITY") /\ DbUnchanged)

OneCartPerSession ==
  \A s \in Sessions : Cardinality(CartBySession(s)) <= 1

ExistingCartReturned ==
  LET r == result'.request
  IN  (result'.op = "getOrCreateCart" /\ CartBySession(r.sessionId) # {})
      => /\ Succeeded(result')
         /\ \E cart \in CartBySession(r.sessionId) : result'.value.id = cart.id
         /\ result'.value.sessionId = r.sessionId
         /\ {c.id : c \in carts'} = {c.id : c \in carts}
         /\ Cardinality(carts') = Cardinality(carts)

\* C6: after any sequence of getOrCreateCart calls there is at most one Cart
\* per sessionId, and a call for a sessionId that already has a Cart returns
\* that Cart and creates none.
C6_OneCartPerSession ==
  /\ []OneCartPerSession
  /\ [][ExistingCartReturned]_vars

\* a guest call on a session got back the cart that already carries a user
C6_Witness ==
  /\ result.op = "getOrCreateCart"
  /\ result.request.userId = NoUser
  /\ result.value.userId # NoUser
  /\ CartBySession(result.request.sessionId) = {result.value}

\* --- C7 -------------------------------------------------------------------
UserIdNeverChanges ==
  \A c \in carts :
    c.userId # NoUser => \E d \in carts' : d.id = c.id /\ d.userId = c.userId

AttachOnlyWhenUnset ==
  LET r == result'.request
  IN  result'.op = "getOrCreateCart"
      => \A cart \in CartBySession(r.sessionId) :
           IF cart.userId = NoUser /\ r.userId # NoUser
           THEN /\ result'.value = [cart EXCEPT !.userId = r.userId]
                /\ carts' = (carts \ {cart}) \union {result'.value}
           ELSE /\ result'.value = cart
                /\ carts' = carts

\* C7: once a Cart's userId is set it is never cleared or replaced;
\* getOrCreateCart attaches the supplied userId only when the Cart's userId is
\* unset, and a later call with no userId or a different userId returns the
\* Cart with its userId unchanged.
C7_UserIdSticky ==
  [][UserIdNeverChanges /\ AttachOnlyWhenUnset]_vars

\* a call with another userId got back the cart still bound to the first user
C7_Witness ==
  /\ result.op = "getOrCreateCart"
  /\ result.request.userId \in Users
  /\ result.value.userId \in Users \ {result.request.userId}
  /\ result.value \in carts

\* --- C8 -------------------------------------------------------------------
GetCartPureRead ==
  LET r == result'.request
  IN  result'.op = "getCart"
      => /\ DbUnchanged
         /\ Succeeded(result')
         /\ CartById(r.cartId) = {}
              => result'.value = [id |-> r.cartId, items |-> {}, subtotal |-> 0,
                                  tax |-> 0, total |-> 0, itemCount |-> 0]

\* C8: getCart is a total, pure read: for a cartId without a Cart it returns
\* {id: cartId, items: [], subtotal: 0, tax: 0, total: 0, itemCount: 0}
\* without error and without creating a Cart, and it never modifies a row.
C8_GetCartPureRead ==
  [][GetCartPureRead]_vars

\* getCart answered for a cart id that has no Cart row, and none was created
C8_Witness ==
  /\ result.op = "getCart"
  /\ Succeeded(result)
  /\ CartById(result.request.cartId) = {}
  /\ result.value.id = result.request.cartId
  /\ result.value.items = {}
  /\ carts # {}

\* --- C9 -------------------------------------------------------------------
RemovalIsolation ==
  LET r == result'.request
  IN  (result'.op = "removeItem" /\ ItemById(r.itemId) # {})
      => /\ Succeeded(result')
         /\ cartItems' = {i \in cartItems : i.id # r.itemId}
         /\ carts' = carts

\* C9: removeItem(itemId) on an existing line deletes exactly that line; every
\* other CartItem, in the same cart and in every other cart, keeps its
\* quantity and priceSnapshot, and the Cart row remains.
C9_RemovalIsolation ==
  [][RemovalIsolation]_vars

\* a line was removed from a cart that still holds its other line
C9_Witness ==
  /\ result.op = "removeItem"
  /\ Succeeded(result)
  /\ result.value \notin cartItems
  /\ ItemsOfCart(result.value.cartId) # {}
  /\ CartById(result.value.cartId) # {}

\* --- C10 ------------------------------------------------------------------
ClearCartFrame ==
  LET r == result'.request
  IN  result'.op = "clearCart"
      => /\ Succeeded(result')
         /\ {i \in cartItems' : i.cartId = r.cartId} = {}
         /\ {i \in cartItems' : i.cartId # r.cartId}
              = {i \in cartItems : i.cartId # r.cartId}
         /\ carts' = carts

\* C10: clearCart(cartId) leaves the cart without CartItems while the Cart row
\* persists, does not touch the CartItems of any other cart, and succeeds when
\* the cart already has no items.
C10_ClearCart ==
  [][ClearCartFrame]_vars

\* a cart was emptied while the other cart kept its line
C10_Witness ==
  /\ result.op = "clearCart"
  /\ Succeeded(result)
  /\ result.value.count > 0
  /\ CartById(result.request.cartId) # {}
  /\ ItemsOfCart(result.request.cartId) = {}
  /\ cartItems # {}

\* --- C11 ------------------------------------------------------------------
UpdateAdmittedIffAvailable ==
  LET r == result'.request
  IN  ( /\ result'.op = "updateItemQuantity"
        /\ IsInteger(r.quantity)
        /\ r.quantity.n >= 1
        /\ ItemById(r.itemId) # {} )
      => \E old \in ItemById(r.itemId) :
           IF r.quantity.n <= Available(old.productId)
           THEN /\ Succeeded(result')
                /\ result'.value.id = old.id
                /\ result'.value.quantity = r.quantity.n
                /\ result'.value.priceSnapshot = old.priceSnapshot
                /\ cartItems' = (cartItems \ {old}) \union {result'.value}
           ELSE /\ Failed(result', "INSUFFICIENT_INVENTORY")
                /\ cartItems' = cartItems

\* C11: updateItemQuantity(itemId, q) on an existing line with an integer
\* q >= 1 succeeds exactly when q <= available for the line's product,
\* whatever the line's previous quantity; on success the line's quantity is q
\* (not previous + q) and its priceSnapshot is unchanged.
C11_UpdateAbsolute ==
  [][UpdateAdmittedIffAvailable]_vars

\* a line was set to the whole available stock and kept its old snapshot
\* after the catalog price had moved
C11_Witness ==
  /\ result.op = "updateItemQuantity"
  /\ Succeeded(result)
  /\ result.value \in cartItems
  /\ result.value.quantity = Available(result.value.productId)
  /\ result.value.quantity > 1
  /\ \E product \in ProductById(result.value.productId) :
       product.price # result.value.priceSnapshot

\* --- C12 ------------------------------------------------------------------
RECURSIVE ExactSubtotal(_)
ExactSubtotal(items) ==
  IF items = <<>> THEN 0
  ELSE Head(items).priceSnapshot * Head(items).quantity + ExactSubtotal(Tail(items))

RECURSIVE ExactItemCount(_)
ExactItemCount(items) ==
  IF items = <<>> THEN 0 ELSE Head(items).quantity + ExactItemCount(Tail(items))

\* num / den rounded half-up to an integer, for num >= 0
HalfUp(num, den) == (2 * num + den) \div (2 * den)

\* the totals in cents the claim states for a list of lines and a rate
StatedTotals(items, taxRate) ==
  LET subtotal == ExactSubtotal(items)
  IN  [subtotal |-> subtotal,
       tax |-> HalfUp(subtotal * taxRate.num, taxRate.den),
       total |-> HalfUp(subtotal * taxRate.den + subtotal * taxRate.num,
                        taxRate.den),
       itemCount |-> ExactItemCount(items)]

TotalsAsStated ==
  result.op = "formatCartTotals"
  => result.value = StatedTotals(result.request.items, result.request.taxRate)

Line(price, quantity) == [priceSnapshot |-> price, quantity |-> quantity]
DefaultRate == [num |-> 8, den |-> 100]

StatedExamples ==
  ( /\ result.op = "formatCartTotals"
    /\ result.request.taxRate = DefaultRate )
  => /\ result.request.items = <<Line(1000, 2), Line(2000, 1)>>
          => result.value = [subtotal |-> 4000, tax |-> 320, total |-> 4320,
                             itemCount |-> 3]
     /\ result.request.items = <<Line(1999, 3)>>
          => /\ result.value.subtotal = 5997
             /\ result.value.tax = 480
             /\ result.value.total = 6477

\* C12 as stated: for every list of lines with prices in whole cents and
\* positive integer quantities and every configured rate r, the response has
\* subtotal = sum of priceSnapshot x quantity, tax = subtotal x r rounded
\* half-up to the cent, total = subtotal + tax rounded to the cent and
\* itemCount = sum of quantities; at r = 0.08 the lines [(10.00,2),(20.00,1)]
\* give 40.00 / 3.20 / 43.20 / 3 and [(19.99,3)] gives 59.97 / 4.80 / 64.77.
C12_Original ==
  TotalsAsStated /\ StatedExamples

\* at the default rate 0.08 the totals computed in doubles are the stated ones
\* (subtotal x 0.08 never lies on half a cent), and they are the totals
\* calculateTotals computes in cents
TotalsAtDefaultRate ==
  ( /\ result.op = "formatCartTotals"
    /\ result.request.taxRate = [num |-> TAX_RATE, den |-> 100] )
  => /\ result.value = StatedTotals(result.request.items, result.request.taxRate)
     /\ StatedExamples
     /\ LET subtotal == ExactSubtotal(result.request.items)
        IN  /\ result.value.tax = RoundDiv100(subtotal * TAX_RATE)
            /\ result.value.total = RoundDiv100(subtotal * 100 + subtotal * TAX_RATE)

\* at rate 0.05 one line of 0.70 has the tax 0.035: the response says 0.03
C12_Witness ==
  /\ result.op = "formatCartTotals"
  /\ result.request.taxRate = [num |-> 5, den |-> 100]
  /\ result.request.items = <<Line(70, 1)>>
  /\ result.value.subtotal = 70
  /\ result.value.tax = 3
  /\ HalfUp(70 * 5, 100) = 4

\* --- C13 ------------------------------------------------------------------
\* the handler answers such a request itself, before any service call
RouteRejects(h) ==
  \/ /\ h.route \in {"PUT /items/:id", "DELETE /items/:id"}
     /\ h.itemId = 0
  \/ /\ h.route = "POST /items"
     /\ (h.body.productId = "" \/ h.body.quantityType # "number" \/ h.body.quantity.half)
  \/ /\ h.route = "PUT /items/:id"
     /\ (h.body.quantityType # "number" \/ h.body.quantity.half)

\* a step of SpecRoutes that changes http and is not such an answer makes
\* one service call, whose outcome is result'
ServiceCalled == http' # http /\ ~RouteRejects(http')

ErrorsMapped ==
  (ServiceCalled /\ http'.stage = "done")
  => LET code == result'.error.code
         response == http'.response
     IN  /\ code \in {"INVALID_QUANTITY", "INSUFFICIENT_INVENTORY"}
              => /\ response.status = 400
                 /\ response.error = code
                 /\ response.message # ""
         /\ code \in {"PRODUCT_NOT_FOUND", "CART_ITEM_NOT_FOUND"}
              => /\ response.status = 404
                 /\ response.error = code
                 /\ response.message # ""
         /\ code = "STORE_ERROR"
              => /\ response.status = 500
                 /\ response.error = "INTERNAL_SERVER_ERROR"
         /\ code = "OK" => response.status \in {200, 201, 204}

\* the failing call ends the handler: the response is sent in the same step
\* and no row has changed in it
NotRetried ==
  (ServiceCalled /\ result'.error.code # "OK")
  => /\ http'.stage = "done"
     /\ http'.response.status >= 400
     /\ DbUnchanged

\* C13: on the HTTP cart routes every domain error is answered as {error:
\* code, message} with its status (InvalidQuantity 400, InsufficientInventory
\* 400, ProductNotFound 404, CartItemNotFound 404), any other failure of the
\* store as 500 INTERNAL_SERVER_ERROR, and the failed call is not retried.
C13_ErrorResponses ==
  [][ErrorsMapped /\ NotRetried]_vars

\* the store failed under addItem after the session's cart had been created:
\* the answer is 500 and the cart has no line
C13_Witness ==
  /\ http.stage = "done"
  /\ http.route = "POST /items"
  /\ result.op = "addItem"
  /\ result.error = StoreError
  /\ http.response.status = 500
  /\ http.response.error = "INTERNAL_SERVER_ERROR"
  /\ CartById(http.cartId) # {}
  /\ ItemsOfCart(http.cartId) = {}

\* --- C14 ------------------------------------------------------------------
\* a call returns or throws in this step
Returns(c) == calls[c].pc # "done" /\ calls'[c].pc = "done"
\* the units of a product that the lines of a cart hold
Held(items, cartId, productId) ==
  SumQuantities({i \in items : i.cartId = cartId /\ i.productId = productId})

\* When a concurrent addItem of one unit completes and the cart's quantity of
\* the product plus that unit is within the available stock, it has succeeded
\* and the cart has one line for the product, holding one unit more than
\* before: then the line counts every request, whatever the interleaving.
UnitAddCounted(c) ==
  LET call == calls'[c]
      request == call.request
  IN  ( /\ Returns(c)
        /\ call.op = "addItem"
        /\ request.quantity = Num(1)
        /\ Held(cartItems, request.cartId, request.productId) + 1
             <= Available(request.productId) )
      => /\ call.error = OK
         /\ Cardinality({i \in cartItems' : /\ i.cartId = request.cartId
                                            /\ i.productId = request.productId}) = 1
         /\ Held(cartItems', request.cartId, request.productId)
              = Held(cartItems, request.cartId, request.productId) + 1

\* C14: several addItem requests of quantity 1 for the same product, issued
\* concurrently on the same cart with their combined quantity within the
\* available stock, all succeed and leave a single line whose quantity is
\* the number of requests, for every interleaving of their reads and writes.
C14_Original == [][\A c \in CallIds : UnitAddCounted(c)]_vars

\* every call was addItem(1, {p1, 1}) on the empty cart of s1, within stock,
\* and all have completed
C14_Witness ==
  /\ MaxCalls <= Available("p1")
  /\ \A c \in CallIds :
       /\ calls[c].pc = "done"
       /\ calls[c].request = addItemRequest(1, "p1", Num(1))
       /\ calls[c].existingItem = NoValue

\* --- C15 ------------------------------------------------------------------
\* the call has passed the availability checks and its write is to come
PastCheck(c) == calls[c].pc \in {"createCartItem", "updateCartItem"}
HeldInCarts(productId) ==
  SumQuantities({i \in cartItems : i.productId = productId})

\* The write of an admitted addItem changes no Inventory row and is not
\* checked again: it commits whatever other calls have committed since its
\* check (only the store can refuse the row), and the line it returns is
\* within the available stock that this call read.
AdmittedCommits(c) ==
  (Returns(c) /\ PastCheck(c)) =>
     /\ inventory' = inventory
     /\ calls'[c].error \in {OK, StoreError}
     /\ calls'[c].error = OK =>
          /\ calls'[c].value \in cartItems'
          /\ calls'[c].value.quantity <= calls[c].available
\* a call in another cart never makes the store refuse the row
AdmittedAlone(c) ==
  ( /\ Returns(c)
    /\ PastCheck(c)
    /\ \A d \in CallIds \ {c} :
         calls[d].op = "addItem" => calls[d].request.cartId # calls[c].request.cartId )
  => calls'[c].error = OK

\* C15: the admission check reserves nothing: two concurrent addItem calls
\* for the same product both pass the availability check and both commit,
\* and the quantities of the product held in carts then exceed its
\* available stock.
C15_NoReservation ==
  [][\A c \in CallIds : AdmittedCommits(c) /\ AdmittedAlone(c)]_vars

\* two addItem calls for p1 on different carts have both committed and the
\* carts together hold more of p1 than is available
C15_Witness ==
  \E c, d \in CallIds :
    /\ calls[c].pc = "done" /\ calls[d].pc = "done"
    /\ calls[c].op = "addItem" /\ calls[d].op = "addItem"
    /\ calls[c].error = OK /\ calls[d].error = OK
    /\ calls[c].request.productId = "p1" /\ calls[d].request.productId = "p1"
    /\ calls[c].request.cartId # calls[d].request.cartId
    /\ calls[c].available = Available("p1") /\ calls[d].available = Available("p1")
    /\ HeldInCarts("p1") > Available("p1")

\* --- C16 ------------------------------------------------------------------
\* A getOrCreateCart call that completes has returned, without error, the
\* one Cart row of its sessionId.
CartReturned(c) ==
  LET call == calls'[c]
  IN  (Returns(c) /\ call.op = "getOrCreateCart") =>
        /\ call.error = OK
        /\ call.value \in carts'
        /\ {cart \in carts' : cart.sessionId = call.request.sessionId} = {call.value}

\* C16: getOrCreateCart has no error conditions for a non-empty sessionId:
\* two concurrent calls for a sessionId that has no Cart yet both return the
\* same Cart without error, and exactly one Cart row exists for it afterwards.
C16_Original == [][\A c \in CallIds : CartReturned(c)]_vars

\* two calls for the same sessionId have completed, both having found no Cart
C16_Witness ==
  \E c, d \in CallIds :
    /\ c # d
    /\ calls[c].pc = "done" /\ calls[d].pc = "done"
    /\ calls[c].op = "getOrCreateCart" /\ calls[d].op = "getOrCreateCart"
    /\ calls[c].request.sessionId = calls[d].request.sessionId
    /\ calls[c].cart = NoValue /\ calls[d].cart = NoValue

\* --- C17 ------------------------------------------------------------------
CartOps ==
  {"getOrCreateCart", "addItem", "updateItemQuantity", "removeItem", "getCart",
   "clearCart"}

CatalogUntouched ==
  result'.op \in CartOps => (inventory' = inventory /\ products' = products)

\* C17: no cart operation (getOrCreateCart, addItem, updateItemQuantity,
\* removeItem, getCart, clearCart), whether it succeeds or fails, changes an
\* Inventory quantity or reserved value or a Product row.
C17_CatalogUntouched ==
  [][CatalogUntouched]_vars

\* a cart took the whole available stock of the partly reserved product and
\* its Inventory row is as seeded
C17_Witness ==
  /\ result.op = "addItem"
  /\ Succeeded(result)
  /\ result.value.quantity = Available(result.value.productId)
  /\ \E r \in InventoryOf(result.value.productId) :
       r = [productId |-> result.value.productId, quantity |-> MaxStock,
            reserved |-> MaxReserved]

\* --- C18 ------------------------------------------------------------------
Rejected(h) ==
  /\ h.stage = "done"
  /\ h.route \in {"POST /items", "PUT /items/:id"}
  /\ h.response.error \in {"INVALID_QUANTITY", "INVALID_INPUT"}

\* C18 as stated: a POST /items or PUT /items/:id rejected for an invalid
\* quantity or a malformed body has changed no Cart and no CartItem row.
C18_Original ==
  Rejected(http)
  => /\ carts = http.before.carts
     /\ cartItems = http.before.cartItems

\* a malformed body is answered INVALID_INPUT and nothing was written
MalformedRejectedFirst ==
  ( /\ http.stage = "done"
    /\ http.route \in {"POST /items", "PUT /items/:id"}
    /\ http.itemId # 0 \/ http.route = "POST /items"
    /\ RouteRejects(http) )
  => /\ http.response.status = 400
     /\ http.response.error = "INVALID_INPUT"
     /\ carts = http.before.carts
     /\ cartItems = http.before.cartItems

\* a request rejected with InvalidQuantity wrote no CartItem; the only Cart
\* row it can have written is the new Cart of the session of a POST
InvalidQuantityWritesNoLine ==
  (Rejected(http) /\ http.response.error = "INVALID_QUANTITY")
  => /\ cartItems = http.before.cartItems
     /\ http.before.carts \subseteq carts
     /\ \A c \in carts \ http.before.carts :
          /\ http.route = "POST /items"
          /\ c.sessionId = http.session.id
          /\ \A b \in http.before.carts : b.sessionId # c.sessionId

\* C18 amended: a POST /items or PUT /items/:id with a malformed body is
\* rejected with INVALID_INPUT before any store mutation; one rejected with
\* InvalidQuantity creates or changes no CartItem, and writes no Cart row
\* except that a POST creates the Cart of a session that had none.
C18_RejectedRequests ==
  MalformedRejectedFirst /\ InvalidQuantityWritesNoLine

\* a POST with quantity 0 was rejected and the session got its Cart by it
C18_Witness ==
  /\ Rejected(http)
  /\ http.route = "POST /items"
  /\ http.response.error = "INVALID_QUANTITY"
  /\ http.before.carts = {}
  /\ \E c \in carts : c.sessionId = http.session.id
  /\ cartItems = {}
\* --- C19 ------------------------------------------------------------------
\* the step is a call of op (Tick leaves result as it is)
Called(op) == result'.op = op /\ now' = now
StoredIn(rows, token) == \E row \in rows : row.token = token
Stored(token) == StoredIn(refreshTokens, token)
\* the last call was a successful refreshToken(token)
Rotated(token) ==
  /\ result.op = "refreshToken"
  /\ result.error = OK
  /\ result.request.token = token

\* a successful refreshToken(t) has stored the token it returns, which is
\* another token than t and not expired, and has deleted t
RotationStep ==
  (Called("refreshToken") /\ result'.error = OK) =>
    /\ ~StoredIn(refreshTokens', result'.request.token)
    /\ result'.value.refreshToken # result'.request.token
    /\ \E row \in refreshTokens' \ refreshTokens :
         /\ row.token = result'.value.refreshToken
         /\ now < row.expiresAt
\* refreshToken of a token that is not stored fails with 'Invalid refresh
\* token' and stores nothing
UnstoredRefreshFails ==
  (Called("refreshToken") /\ ~Stored(result'.request.token)) =>
    /\ result'.error = Error("Invalid refresh token")
    /\ refreshTokens' = refreshTokens
\* refreshToken of a stored token before its expiry is never answered as
\* invalid or expired, and it succeeds unless the token it would issue (the
\* user's token of this second) is stored already
StoredRefreshAccepted ==
  LET token == result'.request.token
  IN  ( /\ Called("refreshToken")
        /\ \E row \in refreshTokens : row.token = token /\ now < row.expiresAt )
      => /\ result'.error \in {OK, StoreError}
         /\ ~Stored(SignRefreshToken(token.userId)) => result'.error = OK

LogoutRemoves ==
  (Called("logout") /\ result'.error = OK) =>
    /\ Stored(result'.request.token)
    /\ ~StoredIn(refreshTokens', result'.request.token)
\* while t is not stored, refreshToken(t) fails with 'Invalid refresh token'
\* and logout(t) with 'Refresh token not found', and neither stores a token
LoggedOutRejected ==
  ((Called("refreshToken") \/ Called("logout")) /\ ~Stored(result'.request.token)) =>
    /\ result'.error = Error(IF result'.op = "logout"
                             THEN "Refresh token not found"
                             ELSE "Invalid refresh token")
    /\ refreshTokens' = refreshTokens
\* a token that is not stored becomes stored only by being issued: by a login
\* of its user, or a refresh of another token of its user, in the second the
\* token is stamped with
StoredOnlyWhenIssued ==
  \A token \in PresentedTokens :
    (~Stored(token) /\ StoredIn(refreshTokens', token)) =>
      /\ result'.op \in {"login", "refreshToken"}
      /\ result'.error = OK
      /\ result'.value.refreshToken = token
      /\ token.iat = now

TargetLine(r) == CHOOSE i \in LinesOf(r.cartId, r.productId) : TRUE
\* an addItem of a valid quantity for a product that has a line in the cart,
\* the accumulated quantity exceeding the available stock
AccumulatedExceeds(r) ==
  /\ Positive(r.quantity)
  /\ LinesOf(r.cartId, r.productId) # {}
  /\ Exceeds(IntPlus(TargetLine(r).quantity, r.quantity), Available(r.productId))

\* C23: when addItem targets a product that already has a line in the cart
\* and available < existing.quantity + quantity, it fails with
\* InsufficientInventory reporting the available stock and the accumulated
\* newQuantity as the requested amount, and the existing row is untouched.
C23_Original ==
  [][LET r == result'.request
     IN  (result'.op = "addItem" /\ AccumulatedExceeds(r)) =>
           /\ result'.error =
                InsufficientInventoryError(r.productId, Available(r.productId),
                                           IntPlus(TargetLine(r).quantity, r.quantity))
           /\ cartItems' = cartItems]_vars

\* The accumulated quantity is refused and the row untouched; the error
\* reports the accumulated newQuantity, except that a quantity which alone
\* exceeds the available stock is refused by the first check, before the
\* line is looked up, and the error then reports that quantity.
C23_AccumulatedRefused ==
  [][LET r == result'.request
         available == Available(r.productId)
     IN  (result'.op = "addItem" /\ AccumulatedExceeds(r)) =>
           /\ result'.error =
                InsufficientInventoryError(
                  r.productId, available,
                  IF Exceeds(r.quantity, available) THEN r.quantity
                  ELSE IntPlus(TargetLine(r).quantity, r.quantity))
           /\ cartItems' = cartItems]_vars

\* an add onto an existing line was refused for the accumulated quantity,
\* the quantity of the request alone being within the available stock
C23_Witness ==
  /\ result.op = "addItem"
  /\ Failed(result, "INSUFFICIENT_INVENTORY")
  /\ LinesOf(result.request.cartId, result.request.productId) # {}
  /\ ~Exceeds(result.request.quantity, result.error.available)
  /\ result.error.requested =
       IntPlus(TargetLine(result.request).quantity, result.request.quantity)

\* --- C24 ------------------------------------------------------------------
\* the error addItem reports first: for the quantity, then for the Product
\* row, then for the Inventory row
FirstAddItemError ==
  LET r == result'.request
  IN  result'.op = "addItem" =>
        /\ NonPositive(r.quantity) =>
             /\ result'.error = InvalidQuantityError(r.quantity)
             /\ cartItems' = cartItems
        /\ (Positive(r.quantity) /\ ProductById(r.productId) = {}) =>
             /\ result'.error = ProductNotFoundError(r.productId)
             /\ cartItems' = cartItems
        /\ ( /\ Positive(r.quantity)
             /\ ProductById(r.productId) # {}
             /\ InventoryOf(r.productId) = {} ) =>
             /\ result'.error = InsufficientInventoryError(r.productId, 0, r.quantity)
             /\ cartItems' = cartItems

\* C24: addItem reports the first applicable error in a fixed order: a
\* quantity <= 0 yields InvalidQuantity even for a nonexistent product;
\* otherwise a missing Product yields ProductNotFound; otherwise a missing
\* Inventory row counts as available = 0 and yields InsufficientInventory for
\* every quantity; in each case no CartItem is created or changed.
C24_ErrorOrder == [][FirstAddItemError]_vars

\* addItem of a quantity <= 0 for a product that has no Product row was
\* answered InvalidQuantity
C24_Witness ==
  /\ result.op = "addItem"
  /\ NonPositive(result.request.quantity)
  /\ ProductById(result.request.productId) = {}
  /\ Failed(result, "INVALID_QUANTITY")

\* --- C25 ------------------------------------------------------------------
UpdateItemQuantityErrors ==
  LET r == result'.request
  IN  result'.op = "updateItemQuantity" =>
        /\ NonPositive(r.quantity) =>
             /\ result'.error = InvalidQuantityError(r.quantity)
             /\ cartItems' = cartItems
        /\ (Positive(r.quantity) /\ ItemById(r.itemId) = {}) =>
             /\ result'.error = CartItemNotFoundError(r.itemId)
             /\ cartItems' = cartItems

\* C25: updateItemQuantity with a quantity <= 0 fails with InvalidQuantity
\* whether or not the item exists; with a valid quantity and an itemId that
\* has no CartItem row it fails with CartItemNotFound; in both cases no
\* CartItem is created or changed.
C25_UpdateErrors == [][UpdateItemQuantityErrors]_vars

\* updateItemQuantity of a quantity <= 0 on an itemId without a row was
\* answered InvalidQuantity
C25_Witness ==
  /\ result.op = "updateItemQuantity"
  /\ NonPositive(result.request.quantity)
  /\ ItemById(result.request.itemId) = {}
  /\ Failed(result, "INVALID_QUANTITY")

\* --- C26 ------------------------------------------------------------------
\* removeItem deletes the row it finds and fails when it finds none
RemoveItemOutcome ==
  LET r == result'.request
  IN  result'.op = "removeItem" =>
        IF ItemById(r.itemId) = {}
        THEN /\ result'.error = CartItemNotFoundError(r.itemId)
             /\ DbUnchanged
        ELSE /\ Succeeded(result')
             /\ cartItems' = cartItems \ ItemById(r.itemId)

\* the id of a deleted row is never given to another row
RemovedStaysRemoved ==
  \A i \in ItemIds :
    (i < nextItemId /\ ItemById(i) = {}) => {x \in cartItems' : x.id = i} = {}

\* C26: removeItem on an itemId that has no CartItem row fails with
\* CartItemNotFound and changes nothing; hence removing the same item twice
\* succeeds the first time and fails with CartItemNotFound the second time
\* (also after the line was removed by clearCart).
C26_RemoveTwice == [][RemoveItemOutcome /\ RemovedStaysRemoved]_vars

\* removeItem of a line that had been created and deleted before was answered
\* CartItemNotFound
C26_Witness ==
  /\ result.op = "removeItem"
  /\ result.request.itemId < nextItemId
  /\ Failed(result, "CART_ITEM_NOT_FOUND")

\* --- C27 ------------------------------------------------------------------
\* the lines of the carts of the sessions other than s
LinesOfOtherSessions(s) ==
  {i \in cartItems : \E c \in carts : c.id = i.cartId /\ c.sessionId # s}

ItemRequest(request) ==
  request.route \in {"PUT /items/:id", "DELETE /items/:id"}

\* C27: session isolation of cart lines: a PUT /cart/items/:id or DELETE
\* /cart/items/:id request made under one session never changes or deletes a
\* CartItem that belongs to the cart of a different session.
C27_Original ==
  [][(http' # http /\ ItemRequest(http'))
     => LinesOfOtherSessions(http'.session.id) \subseteq cartItems']_vars

\* DELETE /items/:id under one session was answered 204 and deleted a line of
\* the cart of another session
C27_Witness ==
  /\ http.route = "DELETE /items/:id"
  /\ http.response.status = 204
  /\ \E i \in http.before.cartItems :
       /\ i.id = http.itemId
       /\ i \notin cartItems
       /\ \E c \in carts : c.id = i.cartId /\ c.sessionId # http.session.id

\* ======================================================= connectWithRetry
\* RETRY_CONFIG
MaxRetries == 3
RetryDelay == 1000
BackoffMultiplier == 2

\* the messages prisma.$connect() rejects with
ConnectErrors ==
  {"Connection failed", "Persistent connection failure", "String error",
   "Database unavailable"}

RECURSIVE Pow(_, _)
Pow(b, e) == IF e = 0 THEN 1 ELSE b * Pow(b, e - 1)

\* throw new Error(`[Prisma] Failed to connect to database after
\* ${RETRY_CONFIG.maxRetries} attempts: ${lastError?.message}`)
ConnectFailure(attempts, lastError) ==
  [message |-> "Failed to connect to database after attempts",
   attempts |-> attempts, lastError |-> lastError]

Connecting == connection.pc \in {"connect", "delay"}

ConnectUnchanged ==
  UNCHANGED <<carts, cartItems, products, inventory, nextCartId, nextItemId,
              result, http, calls, authVars, paymentVars>>

\* the call, up to the await of the first prisma.$connect()
connectWithRetry ==
  /\ ~Connecting
  /\ connection' = [NoConnection EXCEPT !.pc = "connect", !.attempt = 1,
                                        !.connects = 1]
  /\ ConnectUnchanged

\* prisma.$connect() resolves: return
connectResolves ==
  /\ connection.pc = "connect"
  /\ connection' = [connection EXCEPT !.pc = "returned"]
  /\ ConnectUnchanged

\* mutant: the loop runs while attempt <= maxRetries + 1
connectRejects_OneMore(message) ==
  /\ connection.pc = "connect"
  /\ LET failures == Append(connection.failures, message)
         delay == RetryDelay * Pow(BackoffMultiplier, connection.attempt - 1)
     IN  connection' =
           IF connection.attempt < MaxRetries + 1
           THEN [connection EXCEPT !.pc = "delay", !.failures = failures,
                                   !.delay = delay]
           ELSE [connection EXCEPT !.pc = "thrown", !.failures = failures,
                                   !.delay = delay,
                                   !.error = ConnectFailure(MaxRetries, message)]
  /\ ConnectUnchanged

\* prisma.$connect() rejects: the catch block, then the delay or the throw
\* after the loop
connectRejects(message) ==
  /\ connection.pc = "connect"
  /\ LET failures == Append(connection.failures, message)
         delay == RetryDelay * Pow(BackoffMultiplier, connection.attempt - 1)
     IN  connection' =
           IF connection.attempt < MaxRetries
           THEN [connection EXCEPT !.pc = "delay", !.failures = failures,
                                   !.delay = delay]
           ELSE [connection EXCEPT !.pc = "thrown", !.failures = failures,
                                   !.delay = delay,
                                   !.error = ConnectFailure(MaxRetries, message)]
  /\ ConnectUnchanged

\* the timer of the delay fires: attempt++, the next prisma.$connect()
retryTimer ==
  /\ connection.pc = "delay"
  /\ connection' = [connection EXCEPT !.pc = "connect",
                                      !.attempt = connection.attempt + 1,
                                      !.connects = connection.connects + 1]
  /\ ConnectUnchanged

connectSettles ==
  \/ connectResolves
  \/ \E message \in ConnectErrors : connectRejects(message)

NextConnect ==
  \/ connectWithRetry
  \/ connectSettles
  \/ retryTimer

\* The promise of $connect() settles and the timer fires: the event loop runs
\* every callback that is ready.
SpecConnect ==
  Init /\ [][NextConnect]_vars /\ WF_vars(connectSettles) /\ WF_vars(retryTimer)

\* --- C21 ------------------------------------------------------------------
AtMostMaxRetries == connection.connects <= MaxRetries

\* a call that returned made no attempt after the one that succeeded
ReturnsAtFirstSuccess ==
  /\ (connection.pc = "connect" /\ connection'.pc = "returned")
       => /\ connection'.connects = connection.connects
          /\ connection'.connects = Len(connection'.failures) + 1
  /\ connection.pc = "returned"
       => connection'.pc = "connect" /\ connection'.attempt = 1

ThrowsAfterMaxRetries ==
  /\ connection.pc = "thrown"
       => /\ Len(connection.failures) = MaxRetries
          /\ connection.connects = MaxRetries
          /\ connection.error =
               ConnectFailure(3, connection.failures[MaxRetries])
  /\ Len(connection.failures) = MaxRetries => connection.pc = "thrown"

\* C21: connectWithRetry always terminates after at most 3 connection
\* attempts: it returns as soon as one attempt succeeds without making
\* further attempts, and it throws 'Failed to connect to database after 3
\* attempts' once all three attempts have failed.
C21_Terminates ==
  /\ [](AtMostMaxRetries /\ ThrowsAfterMaxRetries)
  /\ [][ReturnsAtFirstSuccess]_vars
  /\ Connecting ~> (connection.pc \in {"returned", "thrown"})

\* the call has thrown after three failed attempts
C21_Witness ==
  /\ connection.pc = "thrown"
  /\ connection.connects = 3
  /\ Len(connection.failures) = 3

\* ========================================================= payment service
MaxIntents == 2        \* payment intents created at Stripe

PaymentError(message, code, statusCode) ==
  [code |-> code, message |-> message, statusCode |-> statusCode]

\* provided amounts in cents: none, amounts around the price of one unit, and
\* that price with tax
PaymentAmounts ==
  {0, BasePrice - 2, BasePrice - 1, BasePrice,
   BasePrice + (BasePrice * TAX_RATE) \div 100}
Currencies == {"usd", "USD", "us"}
\* input.currency.toLowerCase()
ToLowerCase(currency) == IF currency = "USD" THEN "usd" ELSE currency
\* every amount for the first cart in usd, and the price of one unit for the
\* other currencies and for a cart that does not exist
CreatePaymentIntentInputs ==
  [amount : PaymentAmounts, currency : {"usd"}, cartId : {1}]
  \union [amount : {BasePrice}, currency : Currencies, cartId : CartIds]
\* the owner of the first cart pays; another user tries the price of one unit
CreatePaymentIntentCalls ==
  (CreatePaymentIntentInputs \X {"u1"})
  \union {<<[amount |-> BasePrice, currency |-> "usd", cartId |-> 1], "u2">>}
IntentIds == 1..MaxIntents
WebhookEventTypes ==
  {"payment_intent.succeeded", "payment_intent.payment_failed",
   "charge.refunded", "customer.created"}
\* event.type and the payment intent its data.object names
WebhookEvents == [type : WebhookEventTypes, paymentIntentId : IntentIds]

PaymentByIntent(id) == {p \in payments : p.stripePaymentIntentId = id}
AbsDiff(a, b) == IF a < b THEN b - a ELSE a - b

paymentReturn(op, request, error, value) ==
  /\ result' = [op |-> op, request |-> request, error |-> error, value |-> value]
  /\ UNCHANGED <<carts, cartItems, products, inventory, nextCartId, nextItemId,
                 http, calls, authVars, connection>>

createPaymentIntentFail(input, userId, error) ==
  /\ paymentReturn("createPaymentIntent", [input |-> input, userId |-> userId],
                   error, NoValue)
  /\ UNCHANGED paymentVars

\* Math.round(calculatedAmount * 100) of the reduce over the cart's lines:
\* the snapshots are amounts in cents
AmountInCents(items) == SumItemTotals(items)

\* !(Math.abs(input.amount - amountInCents) > 1)
AmountMatches(amount, items) == AbsDiff(amount, AmountInCents(items)) <= 1

createPaymentIntent(input, userId) ==
  IF input.amount <= 0
  THEN createPaymentIntentFail(input, userId,
         PaymentError("Payment amount must be greater than zero",
                      "INVALID_AMOUNT", 400))
  ELSE IF input.currency = "" \/ Len(input.currency) # 3
  THEN createPaymentIntentFail(input, userId,
         PaymentError("Invalid currency code", "INVALID_CURRENCY", 400))
  ELSE IF CartById(input.cartId) = {}
  THEN createPaymentIntentFail(input, userId,
         PaymentError("Cart not found", "CART_NOT_FOUND", 404))
  ELSE LET cart == CHOOSE c \in CartById(input.cartId) : TRUE
           items == ItemsOfCart(input.cartId)
       IN  IF cart.userId # userId
           THEN createPaymentIntentFail(input, userId,
                  PaymentError("Cart does not belong to the authenticated user",
                               "UNAUTHORIZED_CART_ACCESS", 403))
           ELSE IF items = {}
           THEN createPaymentIntentFail(input, userId,
                  PaymentError("Cannot create payment for empty cart",
                               "EMPTY_CART", 400))
           ELSE IF ~AmountMatches(input.amount, items)
           THEN createPaymentIntentFail(input, userId,
                  PaymentError("Provided amount does not match cart total",
                               "AMOUNT_MISMATCH", 400))
           ELSE \/ \* stripe.paymentIntents.create rejects
                   createPaymentIntentFail(input, userId,
                     PaymentError("Payment processing failed",
                                  "STRIPE_API_ERROR", 500))
                \/ /\ Cardinality(intents) < MaxIntents
                   /\ LET paymentIntent ==
                            [id |-> Cardinality(intents) + 1,
                             amount |-> input.amount,
                             currency |-> ToLowerCase(input.currency),
                             status |-> "requires_payment_method"]
                      IN  /\ intents' = intents \union {paymentIntent}
                          /\ payments' = payments \union
                               {[stripePaymentIntentId |-> paymentIntent.id,
                                 userId |-> userId,
                                 cartId |-> input.cartId,
                                 amount |-> SumItemTotals(items),
                                 currency |-> ToLowerCase(input.currency),
                                 status |-> paymentIntent.status]}
                          /\ paymentReturn("createPaymentIntent",
                               [input |-> input, userId |-> userId], OK,
                               [paymentIntentId |-> paymentIntent.id,
                                amount |-> paymentIntent.amount,
                                currency |-> paymentIntent.currency])

\* mutant: a failed payment intent is recorded as canceled
WebhookStatus_Canceled(type) ==
  CASE type = "payment_intent.succeeded" -> "succeeded"
    [] type = "payment_intent.payment_failed" -> "canceled"
    [] type = "charge.refunded" -> "refunded"

\* the status a webhook event type sets
WebhookStatus(type) ==
  CASE type = "payment_intent.succeeded" -> "succeeded"
    [] type = "payment_intent.payment_failed" -> "failed"
    [] type = "charge.refunded" -> "refunded"

\* prisma.payment.update({where: {stripePaymentIntentId}, data: {status}})
\* throws when no row matches; the catch block wraps every error
handleWebhookEvent(event) ==
  IF event.type \notin {"payment_intent.succeeded",
                        "payment_intent.payment_failed", "charge.refunded"}
  THEN /\ paymentReturn("handleWebhookEvent", event, OK, NoValue)
       /\ UNCHANGED paymentVars
  ELSE IF PaymentByIntent(event.paymentIntentId) = {}
  THEN /\ paymentReturn("handleWebhookEvent", event,
                        PaymentError("Failed to process webhook event",
                                     "WEBHOOK_PROCESSING_ERROR", 500), NoValue)
       /\ UNCHANGED paymentVars
  ELSE /\ payments' =
            {IF p.stripePaymentIntentId = event.paymentIntentId
             THEN [p EXCEPT !.status = WebhookStatus(event.type)]
             ELSE p : p \in payments}
       /\ paymentReturn("handleWebhookEvent", event, OK, NoValue)
       /\ UNCHANGED intents

\* Payments: the cart of an authenticated session holding units of one
\* product, payment intents for it, and webhook events in any order.
NextPayment ==
  \/ getOrCreateCart("s1", "u1") /\ UNCHANGED <<http, calls, authVars, connection, paymentVars>>
  \/ addItem(1, "p1", Num(1)) /\ UNCHANGED <<http, calls, authVars, connection, paymentVars>>
  \/ getCart(1) /\ UNCHANGED <<http, calls, authVars, connection, paymentVars>>
  \/ \E call \in CreatePaymentIntentCalls : createPaymentIntent(call[1], call[2])
  \/ \E event \in WebhookEvents : handleWebhookEvent(event)

SpecPayment == Init /\ [][NextPayment]_vars


\* --- C22 ------------------------------------------------------------------
StatusOf(rows, id) ==
  (CHOOSE p \in rows : p.stripePaymentIntentId = id).status

\* payments with the status of the row of one payment intent replaced
WithStatus(id, status) ==
  {IF p.stripePaymentIntentId = id THEN [p EXCEPT !.status = status] ELSE p :
     p \in payments}

WebhookOutcome ==
  LET event == result'.request
      Sets(type, status) ==
        (event.type = type /\ PaymentByIntent(event.paymentIntentId) # {})
          => /\ Succeeded(result')
             /\ payments' = WithStatus(event.paymentIntentId, status)
  IN  result'.op = "handleWebhookEvent" =>
        /\ Sets("payment_intent.succeeded", "succeeded")
        /\ Sets("payment_intent.payment_failed", "failed")
        /\ Sets("charge.refunded", "refunded")
        /\ event.type \notin {"payment_intent.succeeded",
                              "payment_intent.payment_failed", "charge.refunded"}
             => Succeeded(result') /\ payments' = payments

\* C22: handleWebhookEvent sets the status of the payment matching the
\* event's payment intent to 'succeeded' on payment_intent.succeeded, to
\* 'failed' on payment_intent.payment_failed and to 'refunded' on
\* charge.refunded, and an event of any other type completes without error and
\* changes no payment.
C22_WebhookStatus == [][WebhookOutcome]_vars

\* a charge.refunded event was handled and the payment of its payment intent
\* is refunded, while another payment exists
C22_Witness ==
  /\ result.op = "handleWebhookEvent"
  /\ result.request.type = "charge.refunded"
  /\ Succeeded(result)
  /\ PaymentByIntent(result.request.paymentIntentId) # {}
  /\ StatusOf(payments, result.request.paymentIntentId) = "refunded"
  /\ Cardinality(payments) = 2

\* --- C29 ------------------------------------------------------------------
\* the call passed the checks that precede the comparison of the amounts
ReachesAmountCheck(input, userId) ==
  /\ input.amount > 0
  /\ Len(input.currency) = 3
  /\ \E cart \in CartById(input.cartId) : cart.userId = userId
  /\ ItemsOfCart(input.cartId) # {}

\* the total getCart reports for the cart, in cents
GetCartTotal(cartId) ==
  formatCartResponse(CHOOSE c \in CartById(cartId) : TRUE,
                     ItemsOfCart(cartId)).total

\* C29: createPaymentIntent accepts a provided amount only if it is within 1
\* cent of the cart's total as getCart reports it for the same cart (subtotal
\* plus tax, in cents), and otherwise fails with AMOUNT_MISMATCH without
\* creating a payment intent or a Payment row.
C29_Original ==
  [][LET input == result'.request.input
     IN  ( /\ result'.op = "createPaymentIntent"
           /\ ReachesAmountCheck(input, result'.request.userId)
           /\ AbsDiff(input.amount, GetCartTotal(input.cartId)) > 1 )
         => /\ Failed(result', "AMOUNT_MISMATCH")
            /\ UNCHANGED paymentVars]_vars

\* createPaymentIntent created a payment intent and a Payment row for an
\* amount that differs by more than 1 cent from the total getCart reports
C29_Witness ==
  /\ result.op = "createPaymentIntent"
  /\ Succeeded(result)
  /\ PaymentByIntent(result.value.paymentIntentId) # {}
  /\ AbsDiff(result.request.input.amount,
             GetCartTotal(result.request.input.cartId)) > 1

\* --- C30 ------------------------------------------------------------------
\* the statuses a payment goes through never step back
NoStatusRegression ==
  \A p \in payments :
    LET after == StatusOf(payments', p.stripePaymentIntentId)
    IN  /\ p.status = "refunded" => after \notin {"succeeded", "failed"}
        /\ p.status = "succeeded" => after # "failed"

\* C30: payment status never regresses under late or duplicated webhook
\* deliveries: for any sequence of webhook events for one payment intent, once
\* its status is 'refunded' it is never set back to 'succeeded' or 'failed',
\* and once it is 'succeeded' it is never set to 'failed'.
C30_Original == [][NoStatusRegression]_vars


\* ============================================= concurrent refreshToken calls
\* Every await of refreshToken is one step of a call; the calls interleave at
\* the awaits.  prisma.refreshToken.delete({where: {id}}) throws when the row
\* is gone, prisma.refreshToken.create when the token is already stored.
IssuedToken == [userId |-> "u1", iat |-> 0, exp |-> RefreshExpiry]
UnknownToken == [userId |-> "u2", iat |-> 0, exp |-> RefreshExpiry]

\* a login at time 0 stored one refresh token
InitRefresh ==
  /\ carts = {}
  /\ cartItems = {}
  /\ products = {[id |-> p, price |-> BasePrice] : p \in CatalogProducts}
  /\ inventory = {[productId |-> "p1", quantity |-> MaxStock, reserved |-> 0],
                  [productId |-> "p2", quantity |-> MaxStock, reserved |-> MaxReserved]}
  /\ nextCartId = 1
  /\ nextItemId = 1
  /\ result = [op |-> "init", error |-> OK, value |-> NoValue,
               request |-> NoValue]
  /\ http = NoRequest
  /\ calls = [c \in CallIds |-> NoCall]
  /\ refreshTokens = {[id |-> 0, token |-> IssuedToken, userId |-> "u1",
                       expiresAt |-> RefreshExpiry]}
  /\ now = 0
  /\ nextTokenId = 1
  /\ connection = NoConnection
  /\ intents = {}
  /\ payments = {}

RefreshCall(token) ==
  [op |-> "refreshToken", pc |-> "idle", request |-> [token |-> token],
   storedToken |-> NoValue, tokens |-> NoValue, error |-> OK, value |-> NoValue]

RowById(id) == {row \in refreshTokens : row.id = id}

RefreshUnchanged ==
  UNCHANGED <<carts, cartItems, products, inventory, nextCartId, nextItemId,
              http, now, connection, paymentVars>>

\* prisma.refreshToken.findUnique({where: {token}})
refreshFindUnique(c, token) ==
  /\ Free(c)
  /\ IF StoredToken(token) = {}
     THEN Return(c, RefreshCall(token), Error("Invalid refresh token"), NoValue)
     ELSE \E storedToken \in StoredToken(token) :
            Await(c, [RefreshCall(token) EXCEPT !.storedToken = storedToken],
                  "verify")
  /\ UNCHANGED <<refreshTokens, nextTokenId>>
  /\ RefreshUnchanged

\* storedToken.expiresAt < new Date(), then jwt.verify
refreshVerify(c) ==
  /\ calls[c].op = "refreshToken"
  /\ calls[c].pc = "verify"
  /\ \/ /\ calls[c].storedToken.expiresAt <= now
        /\ Await(c, calls[c], "deleteExpired")
     \/ /\ calls[c].storedToken.expiresAt >= now
        /\ IF ~VerifyRefreshToken(calls[c].request.token)
           THEN Await(c, calls[c], "deleteInvalid")
           ELSE Await(c, calls[c], "generateTokens")
  /\ UNCHANGED <<refreshTokens, nextTokenId>>
  /\ RefreshUnchanged

\* the delete of an expired row, or of one whose token fails jwt.verify
refreshDeleteRejected(c) ==
  /\ calls[c].op = "refreshToken"
  /\ calls[c].pc \in {"deleteExpired", "deleteInvalid"}
  /\ IF RowById(calls[c].storedToken.id) = {}
     THEN /\ Return(c, calls[c], StoreError, NoValue)
          /\ UNCHANGED refreshTokens
     ELSE /\ refreshTokens' = refreshTokens \ RowById(calls[c].storedToken.id)
          /\ Return(c, calls[c],
                    IF calls[c].pc = "deleteExpired"
                    THEN Error("Refresh token expired")
                    ELSE Error("Invalid refresh token"), NoValue)
  /\ UNCHANGED nextTokenId
  /\ RefreshUnchanged

\* generateTokens: jwt.sign and prisma.refreshToken.create
refreshGenerateTokens(c) ==
  /\ calls[c].op = "refreshToken"
  /\ calls[c].pc = "generateTokens"
  /\ LET row == generateRefreshToken(calls[c].storedToken.userId)
     IN  IF StoredToken(row.token) # {}
         THEN /\ Return(c, calls[c], StoreError, NoValue)
              /\ UNCHANGED <<refreshTokens, nextTokenId>>
         ELSE /\ nextTokenId <= MaxTokenId
              /\ refreshTokens' = refreshTokens \union {row}
              /\ nextTokenId' = nextTokenId + 1
              /\ Await(c, [calls[c] EXCEPT !.tokens =
                             [accessToken |->
                                generateAccessToken(calls[c].storedToken.userId),
                              refreshToken |-> row.token]],
                       "deleteOld")
  /\ RefreshUnchanged

\* mutant: the old row is deleted with deleteMany, which reports no error
\* when the row is gone
refreshDeleteOld_DeleteMany(c) ==
  /\ calls[c].op = "refreshToken"
  /\ calls[c].pc = "deleteOld"
  /\ refreshTokens' = refreshTokens \ RowById(calls[c].storedToken.id)
  /\ Return(c, calls[c], OK, calls[c].tokens)
  /\ UNCHANGED nextTokenId
  /\ RefreshUnchanged

\* prisma.refreshToken.delete({where: {id: storedToken.id}}), then return
refreshDeleteOld(c) ==
  /\ calls[c].op = "refreshToken"
  /\ calls[c].pc = "deleteOld"
  /\ IF RowById(calls[c].storedToken.id) = {}
     THEN /\ Return(c, calls[c], StoreError, NoValue)
          /\ UNCHANGED refreshTokens
     ELSE /\ refreshTokens' = refreshTokens \ RowById(calls[c].storedToken.id)
          /\ Return(c, calls[c], OK, calls[c].tokens)
  /\ UNCHANGED nextTokenId
  /\ RefreshUnchanged

NextRefresh ==
  \/ \E c \in CallIds, token \in {IssuedToken, UnknownToken} :
       refreshFindUnique(c, token)
  \/ \E c \in CallIds : refreshVerify(c)
  \/ \E c \in CallIds : refreshDeleteRejected(c)
  \/ \E c \in CallIds : refreshGenerateTokens(c)
  \/ \E c \in CallIds : refreshDeleteOld(c)
  \/ Tick

SpecRefresh == InitRefresh /\ [][NextRefresh]_vars

\* --- C28 ------------------------------------------------------------------
\* the calls that returned new tokens for a refresh token
Exchanged(token) ==
  {c \in CallIds : /\ calls[c].op = "refreshToken"
                   /\ calls[c].pc = "done"
                   /\ calls[c].request.token = token
                   /\ calls[c].error = OK}

\* C28: a refresh token is exchanged successfully at most once even under
\* concurrency: if two refreshToken(t) calls for the same valid token t
\* interleave, at most one of them returns new tokens.
C28_ExchangedOnce ==
  \A token \in {IssuedToken, UnknownToken} : Cardinality(Exchanged(token)) <= 1

\* two calls for the issued token both found its row and both stored a new
\* token; one returned new tokens and the delete of the other one failed
C28_Witness ==
  /\ Cardinality(Exchanged(IssuedToken)) = 1
  /\ \E c \in CallIds :
       /\ calls[c].op = "refreshToken"
       /\ calls[c].pc = "done"
       /\ calls[c].request.token = IssuedToken
       /\ calls[c].tokens # NoValue
       /\ calls[c].error = StoreError

====
